---- MODULE Spec2Model ----
(***************************************************************************)
(* A model of the azure_automl FastAPI backend: the deployment             *)
(* orchestrator (services/deployment_service.py and the services it        *)
(* calls), the HTTP routes that persist its result, the role gate, and the *)
(* CRUD routes for models and experiments.                                 *)
(*                                                                         *)
(* Floats are modelled as integers counting hundredths (0.7 is 70) plus    *)
(* the value NaN; Python's None is the token None.  The Azure ML SDK is    *)
(* the environment: every SDK call either returns or raises, chosen by an  *)
(* outcome record o drawn with \E.                                         *)
(***************************************************************************)
EXTENDS Integers, Sequences, FiniteSets, TLC

VARIABLES
    azJobs,        \* Azure: child jobs of each experiment, in the order jobs.list returns them
    azModels,      \* Azure: number of registered versions per model name
    azEndpoints,   \* Azure: online endpoints by name (exists = FALSE when absent)
    azSubmitted,   \* Azure: number of jobs submitted with jobs.create_or_update
    calls,         \* the SDK calls issued by the operation that ran last, in order
    req,           \* the inputs of the operation that ran last
    result,        \* what the operation that ran last returned or raised
    dbExperiments, \* table experiments
    dbRuns,        \* table runs
    dbModels,      \* table models
    dbEndpoints,   \* table endpoints
    dbDeployments, \* table deployments
    dbUsers,       \* table users
    dbRoles,       \* table roles
    dbDatasets,    \* table datasets
    nextId         \* number of generated identifiers (uuid4) used so far

vars == <<azJobs, azModels, azEndpoints, azSubmitted, calls, req, result, dbExperiments,
          dbRuns, dbModels, dbEndpoints, dbDeployments, dbUsers, dbRoles,
          dbDatasets, nextId>>

dbVars == <<dbExperiments, dbRuns, dbModels, dbEndpoints, dbDeployments,
            dbUsers, dbRoles, dbDatasets>>

None == "None"      \* Python's None where the other values are strings
NaN == 0 - 1        \* float('nan')
NoScore == 0 - 2    \* job_info["score"] is None
ValueError == 0 - 3 \* float() raised ValueError

----------------------------------------------------------------------------
(* Bounds *)

MaxJobs == 3        \* child jobs per experiment
MaxVersions == 2    \* registered versions per model name
MaxIds == 1         \* generated identifiers per behaviour
MaxMinutes == 12    \* minutes the endpoint-metrics task is followed for

----------------------------------------------------------------------------
(* Sequence helpers *)

Reverse(s) == [i \in 1..Len(s) |-> s[Len(s) + 1 - i]]

SeqsUpTo(S, n) == UNION {[1..k -> S] : k \in 0..n}

InsertAt(s, i, x) == SubSeq(s, 1, i - 1) \o <<x>> \o SubSeq(s, i, Len(s))

----------------------------------------------------------------------------
(* float(value) on the property values Azure returns (strings).            *)

\* float(): the parsed number, NaN for "nan", or ValueError
PyFloat(v) ==
    CASE v = "0.7" -> 70
      [] v = "0.8" -> 80
      [] v = "0.9" -> 90
      [] v = "nan" -> NaN
      [] OTHER -> ValueError

\* x < y on floats: every comparison with NaN is False
PyLess(x, y) == x # NaN /\ y # NaN /\ x < y

----------------------------------------------------------------------------
(* ExperimentService._extract_job_performance_info                         *)

\* key.lower()
Lower(k) ==
    CASE k = "Accuracy" -> "accuracy"
      [] k = "AUC" -> "auc"
      [] OTHER -> k

\* any(metric in key_lower for metric in ["accuracy", "precision", "recall", "f1", "auc"])
ContainsMetricName(keyLower) ==
    keyLower \in {"accuracy", "auc", "roc_auc", "precision", "recall", "f1_score"}

\* an iteration in which every metric key can give the fallback score
ExtractStepAnyMetric(info, key, value) ==
    LET keyLower == Lower(key)
        f == PyFloat(value)
        s1 == IF keyLower \in {"score", "accuracy", "primary_metric_score"} /\ f # ValueError
              THEN f ELSE info.score
        a1 == IF keyLower \in {"algorithm", "model_name", "estimator"}
              THEN value ELSE info.algorithm
        m1 == IF ContainsMetricName(keyLower) /\ f # ValueError
              THEN info.metrics \cup {key} ELSE info.metrics
        s2 == IF ContainsMetricName(keyLower) /\ f # ValueError /\ s1 = NoScore
              THEN f ELSE s1
    IN  [info EXCEPT !.score = s2, !.algorithm = a1, !.metrics = m1]

\* one iteration of the loop over properties.items(); info is job_info so far
ExtractStep(info, key, value) ==
    LET keyLower == Lower(key)
        f == PyFloat(value)
        s1 == IF keyLower \in {"score", "accuracy", "primary_metric_score"} /\ f # ValueError
              THEN f ELSE info.score
        a1 == IF keyLower \in {"algorithm", "model_name", "estimator"}
              THEN value ELSE info.algorithm
        m1 == IF ContainsMetricName(keyLower) /\ f # ValueError
              THEN info.metrics \cup {key} ELSE info.metrics
        s2 == IF ContainsMetricName(keyLower) /\ f # ValueError /\ s1 = NoScore
                 /\ keyLower \in {"accuracy", "auc", "roc_auc"}
              THEN f ELSE s1
    IN  [info EXCEPT !.score = s2, !.algorithm = a1, !.metrics = m1]

RECURSIVE ExtractLoop(_, _)
ExtractLoop(info, props) ==
    IF props = <<>> THEN info
    ELSE ExtractLoop(ExtractStep(info, props[1][1], props[1][2]), Tail(props))

\* job is [name, properties]; properties is the dict as a sequence of <<key, value>>
ExtractJobPerformanceInfo(job) ==
    ExtractLoop([name |-> job.name, algorithm |-> "unknown", score |-> NoScore,
                 metrics |-> {}], job.properties)

----------------------------------------------------------------------------
(* list.sort(key=lambda x: x.get("score", 0), reverse=True) as CPython    *)
(* runs it on a short list: reverse, find the leading run, binary          *)
(* insertion sort on the rest, reverse again.                              *)

SortKeyLess(a, b) == PyLess(a.score, b.score)

\* count_run: length of the run at the head of s and whether it descends
RECURSIVE RunEnd(_, _, _)
RunEnd(s, i, descending) ==
    IF i > Len(s) THEN i - 1
    ELSE IF SortKeyLess(s[i], s[i - 1]) = descending THEN RunEnd(s, i + 1, descending)
    ELSE i - 1

CountRun(s) ==
    IF Len(s) < 2 THEN [n |-> Len(s), descending |-> FALSE]
    ELSE LET d == SortKeyLess(s[2], s[1])
         IN  [n |-> RunEnd(s, 3, d), descending |-> d]

\* binarysort: the position at which pivot goes into the sorted prefix s[l..r-1]
RECURSIVE BinaryPos(_, _, _, _)
BinaryPos(s, pivot, l, r) ==
    IF l >= r THEN l
    ELSE LET p == l + ((r - l) \div 2)
         IN  IF SortKeyLess(pivot, s[p]) THEN BinaryPos(s, pivot, l, p)
             ELSE BinaryPos(s, pivot, p + 1, r)

RECURSIVE BinarySort(_, _)
BinarySort(s, start) ==
    IF start > Len(s) THEN s
    ELSE LET pivot == s[start]
             pos == BinaryPos(s, pivot, 1, start)
             moved == InsertAt(SubSeq(s, 1, start - 1), pos, pivot)
                      \o SubSeq(s, start + 1, Len(s))
         IN  BinarySort(moved, start + 1)

ListSortAscending(s) ==
    IF Len(s) < 2 THEN s
    ELSE LET run == CountRun(s)
             head == SubSeq(s, 1, run.n)
             s1 == (IF run.descending THEN Reverse(head) ELSE head)
                   \o SubSeq(s, run.n + 1, Len(s))
         IN  BinarySort(s1, run.n + 1)

ListSortReverse(s) == Reverse(ListSortAscending(Reverse(s)))

RECURSIVE ScoredJobs(_)

\* a variant that keeps the jobs for which no score was found
ScoredJobsKeepingAll(childJobs) ==
    [i \in 1..Len(childJobs) |-> ExtractJobPerformanceInfo(childJobs[i])]

\* the body of get_child_jobs_with_scores after jobs.list returned child_jobs
ScoredJobs(childJobs) ==
    IF childJobs = <<>> THEN <<>>
    ELSE LET info == ExtractJobPerformanceInfo(childJobs[1])
         IN  (IF info.score # NoScore THEN <<info>> ELSE <<>>)
             \o ScoredJobs(Tail(childJobs))

GetChildJobsWithScores(childJobs) == ListSortReverse(ScoredJobs(childJobs))

----------------------------------------------------------------------------
(* The Azure ML workspace as the SDK shows it                              *)

ExperimentNames == {"e1", "e2"}
RunIds == {"r1", "r2", "r3"}
\* the names a parent job is looked up by: str(experiment_id) or str(run_id)
ParentJobNames == ExperimentNames \cup RunIds
EndpointNames == {"ep1"}
\* a deployment name is <<text, 0>> when the caller chose it and
\* <<"deployment", n>> for the n-th generated f"deployment-{uuid4()[:8]}"
RequestedDeploymentNames == {<<"blue", 0>>}
GeneratedName(n) == <<"deployment", n>>
NoDeploymentName == <<None, 0>>     \* request.deployment_name is None

\* azureml model name f"automl-best-{experiment_name.replace('_', '-')}"
ModelNameOf(experimentName) == <<"automl-best", experimentName>>

AbsentEndpoint ==
    [exists |-> FALSE, description |-> None, tags |-> None, auth_mode |-> None,
     traffic |-> {}, deployments |-> {}]

\* an SDK call as it appears in the log: the client method and what it was given
\* and whether it returned (ok) or raised
Call(api, arg, ok) == [api |-> api, arg |-> arg, ok |-> ok]

Raised(callSeq, az) == [ok |-> FALSE, calls |-> callSeq, az |-> az, value |-> None]
Returned(callSeq, az, v) == [ok |-> TRUE, calls |-> callSeq, az |-> az, value |-> v]

\* the outcome of every SDK call an operation can issue: TRUE returns, FALSE raises
OutcomeFields == {"parentGet", "list", "bestGet", "reg1", "reg2", "lookup",
                  "create", "keepTraffic", "deploy", "trafficGet",
                  "trafficUpdate", "finalGet"}

\* the outcome in which exactly the calls in failed raise
Failing(failed) == [f \in OutcomeFields |-> f \notin failed]

\* both outcomes at once: a call raises if it raises in either
Both(o1, o2) == [f \in OutcomeFields |-> o1[f] /\ o2[f]]

\* The runs of the orchestrator, stage by stage.  A call that is never
\* issued (after a raise that ends the operation, or the second candidate
\* after the first succeeded) is fixed to TRUE, so that each distinct run
\* is enumerated once.
Outcomes ==
    LET DeployStageOutcomes ==
            {Failing({}), Failing({"deploy"}), Failing({"trafficGet"}),
             Failing({"trafficUpdate"}), Failing({"finalGet"})}
        EndpointStageOutcomes ==
            {Failing({"lookup", "create"})}
            \cup {Both(e, t) : e \in {Failing({}), Failing({"lookup"}),
                                      Failing({"lookup", "keepTraffic"})},
                               t \in DeployStageOutcomes}
        RegisterStageOutcomes ==
            {Failing({"reg1", "reg2"})}
            \cup {Both(r, e) : r \in {Failing({}), Failing({"reg1"})},
                               e \in EndpointStageOutcomes}
    IN  {Both(p, x) : p \in {Failing({}), Failing({"parentGet"})},
                      x \in {Failing({"list"})}
                            \cup {Both(b, r) : b \in {Failing({}), Failing({"bestGet"})},
                                               r \in RegisterStageOutcomes}}

\* the outcomes in which only the calls named in fields may raise
OutcomesVarying(fields) ==
    {o \in Outcomes : \A f \in OutcomeFields \ fields : o[f]}

----------------------------------------------------------------------------
(* ModelService.register_model_from_job                                    *)

\* models.create_or_update succeeded: Azure stores the next version of the name
RegisterVersion(models, modelName) ==
    [models EXCEPT ![modelName] = @ + 1]

\* a registration loop without the early return: every candidate is tried
RegisterModelFromJobEveryCandidate(az, jobName, modelName, o) ==
    LET try1 == <<Call("models.create_or_update", <<"mlflow-model", jobName>>, o.reg1)>>
        try2 == try1 \o <<Call("models.create_or_update", <<"outputs", jobName>>, o.reg2)>>
        az1 == IF o.reg1 THEN [az EXCEPT !.models = RegisterVersion(az.models, modelName)]
               ELSE az
        az2 == IF o.reg2 THEN [az1 EXCEPT !.models = RegisterVersion(az1.models, modelName)]
               ELSE az1
        ref == [name |-> modelName, version |-> az2.models[modelName]]
    IN  IF o.reg1 \/ o.reg2 THEN Returned(try2, az2, ref)
        ELSE Raised(try2, az)

RegisterModelFromJob(az, jobName, modelName, o) ==
    LET try1 == <<Call("models.create_or_update", <<"mlflow-model", jobName>>, o.reg1)>>
        try2 == try1 \o <<Call("models.create_or_update", <<"outputs", jobName>>, o.reg2)>>
        az1 == [az EXCEPT !.models = RegisterVersion(az.models, modelName)]
        ref == [name |-> modelName, version |-> az1.models[modelName]]
    IN  IF o.reg1 THEN Returned(try1, az1, ref)
        ELSE IF o.reg2 THEN Returned(try2, az1, ref)
        ELSE Raised(try2, az)

----------------------------------------------------------------------------
(* EndpointService                                                         *)

\* online_endpoints.begin_create_or_update(ManagedOnlineEndpoint(...)): the
\* entity replaces description, tags and auth mode; it carries no traffic
\* map, and whether the service then keeps the old one is the service's choice
PutEndpoint(endpoints, name, description, tags, keepTraffic) ==
    [endpoints EXCEPT ![name] =
        [exists |-> TRUE, description |-> description, tags |-> tags,
         auth_mode |-> "key",
         traffic |-> IF keepTraffic THEN @.traffic ELSE {},
         deployments |-> @.deployments]]

\* online_endpoints.get returns only for an endpoint that exists, and may
\* raise for one that does (transport, throttling, credentials)
LookupReturns(endpoints, name, ok) == endpoints[name].exists /\ ok

CreateOrGetEndpointWithMetadata(az, endpointName, o) ==
    LET found == LookupReturns(az.endpoints, endpointName, o.lookup)
        get == <<Call("online_endpoints.get", <<endpointName>>, found)>>
        put == get \o <<Call("online_endpoints.begin_create_or_update",
                             <<"create", endpointName>>, o.create)>>
    IN  IF LookupReturns(az.endpoints, endpointName, o.lookup)
        THEN Returned(get, az, endpointName)
        ELSE IF o.create
        THEN Returned(put,
                      [az EXCEPT !.endpoints =
                          PutEndpoint(az.endpoints, endpointName, "automl",
                                      "automl", o.keepTraffic)],
                      endpointName)
        ELSE Raised(put, az)

\* the sum of the percentages of a traffic map, a set of <<name, percentage>>
RECURSIVE SumValues(_)
SumValues(allocation) ==
    IF allocation = {} THEN 0
    ELSE LET p == CHOOSE x \in allocation : TRUE
         IN  p[2] + SumValues(allocation \ {p})

\* a variant that refuses, before any call, a map that does not sum to 100
UpdateEndpointTrafficSumChecked(az, endpointName, allocation, o) ==
    LET found == LookupReturns(az.endpoints, endpointName, o.trafficGet)
        get == <<Call("online_endpoints.get", <<endpointName>>, found)>>
        put == get \o <<Call("online_endpoints.begin_create_or_update",
                             <<"traffic", endpointName, allocation>>,
                             o.trafficUpdate)>>
    IN  IF SumValues(allocation) # 100 THEN Raised(<<>>, az)
        ELSE IF ~found THEN Raised(get, az)
        ELSE IF ~o.trafficUpdate THEN Raised(put, az)
        ELSE Returned(put,
                      [az EXCEPT !.endpoints[endpointName].traffic = allocation],
                      allocation)

\* update_endpoint_traffic: the endpoint is fetched, its traffic replaced by
\* the given map and the endpoint put back; the map is not examined
UpdateEndpointTraffic(az, endpointName, allocation, o) ==
    LET found == LookupReturns(az.endpoints, endpointName, o.trafficGet)
        get == <<Call("online_endpoints.get", <<endpointName>>, found)>>
        put == get \o <<Call("online_endpoints.begin_create_or_update",
                             <<"traffic", endpointName, allocation>>,
                             o.trafficUpdate)>>
    IN  IF ~LookupReturns(az.endpoints, endpointName, o.trafficGet)
        THEN Raised(get, az)
        ELSE IF ~o.trafficUpdate THEN Raised(put, az)
        ELSE Returned(put,
                      [az EXCEPT !.endpoints[endpointName].traffic = allocation],
                      allocation)

----------------------------------------------------------------------------
(* DeploymentService                                                       *)

\* a variant that issues the deployment a second time when the first raised
DeployRegisteredModelRetrying(az, modelReference, endpointName, deploymentName, trafficPercentage, o) ==
    LET created == az.endpoints[endpointName].exists /\ o.deploy
        put == <<Call("online_deployments.begin_create_or_update",
                      <<endpointName, deploymentName>>, created)>>
        az1 == [az EXCEPT !.endpoints[endpointName].deployments =
                              @ \cup {deploymentName}]
        value == [name |-> deploymentName, model |-> modelReference,
                  provisioning_state |-> "Succeeded"]
    IN  IF ~created THEN Raised(put \o put, az)
        ELSE IF trafficPercentage > 0
        THEN LET t == UpdateEndpointTraffic(
                          az1, endpointName,
                          {<<deploymentName, trafficPercentage>>}, o)
             IN  IF t.ok THEN Returned(put \o t.calls, t.az, value)
                 ELSE Raised(put \o t.calls, t.az)
        ELSE Returned(put, az1, value)

DeployRegisteredModel(az, modelReference, endpointName, deploymentName, trafficPercentage, o) ==
    LET created == az.endpoints[endpointName].exists /\ o.deploy
        put == <<Call("online_deployments.begin_create_or_update",
                      <<endpointName, deploymentName>>, created)>>
        az1 == [az EXCEPT !.endpoints[endpointName].deployments =
                              @ \cup {deploymentName}]
        value == [name |-> deploymentName, model |-> modelReference,
                  provisioning_state |-> "Succeeded"]
    IN  IF ~created THEN Raised(put, az)
        ELSE IF trafficPercentage > 0
        THEN LET t == UpdateEndpointTraffic(
                          az1, endpointName,
                          {<<deploymentName, trafficPercentage>>}, o)
             IN  IF t.ok THEN Returned(put \o t.calls, t.az, value)
                 ELSE Raised(put \o t.calls, t.az)
        ELSE Returned(put, az1, value)

\* a variant that reports the parent job as read whether or not jobs.get returned
ExtractParentJobMetadataAsRead(experimentName, getOk) ==
    [experiment_name |-> experimentName, task_type |-> "classification",
     error |-> None]

\* extract_parent_job_metadata: jobs.get raising yields the partial record
ExtractParentJobMetadata(experimentName, getOk) ==
    IF getOk
    THEN [experiment_name |-> experimentName, task_type |-> "classification",
          error |-> None]
    ELSE [experiment_name |-> experimentName, task_type |-> "unknown",
          error |-> "raised"]

\* deploy_best_model_from_experiment; fresh is the name generated when
\* deployment_name is None
DeployBestModelFromExperiment(az, experimentName, endpointName, deploymentName, trafficPercentage, fresh, o) ==
    LET parentMetadata == ExtractParentJobMetadata(experimentName, o.parentGet)
        c1 == <<Call("jobs.get", <<"parent", experimentName>>, o.parentGet),
                Call("jobs.list", <<"children", experimentName>>, o.list)>>
        jobsWithScores == GetChildJobsWithScores(az.jobs[experimentName])
    IN  IF ~o.list \/ jobsWithScores = <<>> THEN Raised(c1, az)
        ELSE
        LET bestJob == jobsWithScores[1]
            c2 == c1 \o <<Call("jobs.get", <<"child", bestJob.name>>, o.bestGet)>>
            reg == RegisterModelFromJob(az, bestJob.name,
                                        ModelNameOf(experimentName), o)
            c3 == c2 \o reg.calls
        IN  IF ~reg.ok THEN Raised(c3, reg.az)
            ELSE
            LET ep == CreateOrGetEndpointWithMetadata(reg.az, endpointName, o)
                c4 == c3 \o ep.calls
            IN  IF ~ep.ok THEN Raised(c4, ep.az)
                ELSE
                LET name == IF deploymentName = NoDeploymentName THEN fresh ELSE deploymentName
                    dep == DeployRegisteredModel(ep.az, reg.value, ep.value, name,
                                                 trafficPercentage, o)
                    c5 == c4 \o dep.calls
                    c6 == c5 \o <<Call("online_endpoints.get", <<ep.value>>, o.finalGet)>>
                IN  IF ~dep.ok THEN Raised(c5, dep.az)
                    ELSE IF ~o.finalGet THEN Raised(c6, dep.az)
                    ELSE Returned(c6, dep.az,
                            [experiment_name |-> experimentName,
                             best_job_name |-> bestJob.name,
                             model_reference |-> reg.value,
                             endpoint_name |-> ep.value,
                             deployment_name |-> name,
                             endpoint_url |-> <<"scoring_uri", ep.value>>,
                             model_score |-> bestJob.score,
                             algorithm |-> bestJob.algorithm,
                             deployment_status |-> dep.value.provisioning_state,
                             parent_task_type |-> parentMetadata.task_type])

----------------------------------------------------------------------------
(* The state the services work on                                          *)

Az == [jobs |-> azJobs, models |-> azModels, endpoints |-> azEndpoints]

\* the properties a child job carries in the orchestrator specifications
ScoreProperties ==
    {<<>>} \cup {<< <<"score", v>> >> : v \in {"0.7", "0.8", "0.9", "nan"}}
    \cup {<< <<"precision", "0.9">> >>,
          << <<"AUC", "0.8">> >>,
          << <<"score", "n/a">>, <<"f1_score", "0.9">> >>}

\* the lists jobs.list can return: job i is named i
NameJobs(ps) == [i \in 1..Len(ps) |-> [name |-> i, properties |-> ps[i]]]

NoResult == [status |-> "none"]

InitDb ==
    /\ dbExperiments = {}
    /\ dbRuns = {}
    /\ dbModels = {}
    /\ dbEndpoints = {}
    /\ dbDeployments = {}
    /\ dbUsers = {}
    /\ dbRoles = {}
    /\ dbDatasets = {}

InitAzure ==
    /\ azModels = [m \in {ModelNameOf(e) : e \in ParentJobNames} |-> 0]
    /\ azEndpoints = [n \in EndpointNames |-> AbsentEndpoint]
    /\ azSubmitted = 0

InitOperation ==
    /\ calls = <<>>
    /\ req = [op |-> "none"]
    /\ result = NoResult
    /\ nextId = 0

----------------------------------------------------------------------------
(* Specification ServiceSpec: the services called directly                 *)

\* the experiment e1 starts without a scored child job, or with one
ServiceInit ==
    /\ \E jobs \in {NameJobs(<<>>), NameJobs(<< << <<"score", "0.9">> >> >>)} :
          azJobs = [e \in ParentJobNames |-> IF e = "e1" THEN jobs ELSE <<>>]
    /\ InitAzure
    /\ InitDb
    /\ InitOperation

\* EndpointService.create_endpoint(endpoint_name, description, tags)
ServiceCreateEndpoint ==
    \E name \in EndpointNames, description \in {None, "custom"}, ok \in BOOLEAN :
        /\ req' = [op |-> "create_endpoint", endpoint_name |-> name]
        /\ calls' = <<Call("online_endpoints.begin_create_or_update",
                           <<"create", name>>, ok)>>
        /\ azEndpoints' =
              IF ok THEN PutEndpoint(azEndpoints, name,
                                     IF description = None THEN "default"
                                     ELSE description,
                                     "user", FALSE)
              ELSE azEndpoints
        /\ result' = [status |-> IF ok THEN "ok" ELSE "error"]
        /\ UNCHANGED <<azJobs, azSubmitted, azModels, dbVars, nextId>>

\* DeploymentService.deploy_best_model_from_experiment(...)
ServiceDeployBest ==
    \E e \in {"e1"}, name \in EndpointNames,
       d \in RequestedDeploymentNames \cup {NoDeploymentName},
       pct \in {0, 100}, o \in Outcomes :
        /\ azModels[ModelNameOf(e)] < MaxVersions
        /\ (d = NoDeploymentName) => (nextId < MaxIds)
        /\ \E r \in {DeployBestModelFromExperiment(
                        Az, e, name, d, pct, GeneratedName(nextId + 1), o)} :
               /\ req' = [op |-> "deploy_best", experiment_name |-> e,
                          endpoint_name |-> name, deployment_name |-> d,
                          traffic_percentage |-> pct]
               /\ calls' = r.calls
               /\ azModels' = r.az.models
               /\ azEndpoints' = r.az.endpoints
               /\ result' = IF r.ok THEN [status |-> "ok", value |-> r.value]
                            ELSE [status |-> "error"]
               /\ nextId' = IF d = NoDeploymentName THEN nextId + 1 ELSE nextId
        /\ UNCHANGED <<azJobs, azSubmitted, dbVars>>

\* ModelService.register_model_from_job(job_name, model_name, ...)
ServiceRegisterModelFromJob ==
    \E e \in {"e1"}, j \in 1..MaxJobs, o \in OutcomesVarying({"reg1", "reg2"}) :
        /\ azModels[ModelNameOf(e)] < MaxVersions
        /\ \E r \in {RegisterModelFromJob(Az, j, ModelNameOf(e), o)} :
               /\ req' = [op |-> "register_model", experiment_name |-> e,
                          job_name |-> j]
               /\ calls' = r.calls
               /\ azModels' = r.az.models
               /\ result' = IF r.ok THEN [status |-> "ok", value |-> r.value]
                            ELSE [status |-> "error"]
        /\ UNCHANGED <<azJobs, azSubmitted, azEndpoints, dbVars, nextId>>

\* EndpointService.create_or_get_endpoint_with_metadata(endpoint_name, metadata)
ServiceCreateOrGetEndpoint ==
    \E name \in EndpointNames,
       o \in OutcomesVarying({"lookup", "create", "keepTraffic"}) :
        /\ \E r \in {CreateOrGetEndpointWithMetadata(Az, name, o)} :
               /\ req' = [op |-> "create_or_get_endpoint", endpoint_name |-> name]
               /\ calls' = r.calls
               /\ azEndpoints' = r.az.endpoints
               /\ result' = IF r.ok THEN [status |-> "ok", value |-> r.value]
                            ELSE [status |-> "error"]
        /\ UNCHANGED <<azJobs, azSubmitted, azModels, dbVars, nextId>>

ServiceNext ==
    \/ ServiceCreateEndpoint
    \/ ServiceRegisterModelFromJob
    \/ ServiceCreateOrGetEndpoint
    \/ ServiceDeployBest

ServiceSpec == ServiceInit /\ [][ServiceNext]_vars

----------------------------------------------------------------------------
(* Specification RankSpec: the orchestrator over every list of child jobs, *)
(* with the SDK calls after the registration returning                     *)

RankInit ==
    /\ \E jobs \in {NameJobs(ps) : ps \in SeqsUpTo(ScoreProperties, MaxJobs)} :
          azJobs = [e \in ParentJobNames |-> IF e = "e1" THEN jobs ELSE <<>>]
    /\ InitAzure
    /\ InitDb
    /\ InitOperation

RankDeployBest ==
    \E name \in EndpointNames, d \in RequestedDeploymentNames,
       o \in OutcomesVarying({"list", "reg1", "reg2"}) :
        /\ azModels[ModelNameOf("e1")] < MaxVersions
        /\ \E r \in {DeployBestModelFromExperiment(
                        Az, "e1", name, d, 100, GeneratedName(nextId + 1), o)} :
               /\ req' = [op |-> "deploy_best", experiment_name |-> "e1",
                          endpoint_name |-> name, deployment_name |-> d,
                          traffic_percentage |-> 100]
               /\ calls' = r.calls
               /\ azModels' = r.az.models
               /\ azEndpoints' = r.az.endpoints
               /\ result' = IF r.ok THEN [status |-> "ok", value |-> r.value]
                            ELSE [status |-> "error"]
        /\ UNCHANGED <<azJobs, azSubmitted, dbVars, nextId>>

RankNext == RankDeployBest

RankSpec == RankInit /\ [][RankNext]_vars

----------------------------------------------------------------------------
(* routes/deploy.py: POST /deploy/experiment/{id} and POST /deploy/run/{id} *)

Users == {"u1", "u2"}

RECURSIVE SumOver(_, _)
SumOver(f, keys) ==
    IF keys = {} THEN 0
    ELSE LET k == CHOOSE x \in keys : TRUE IN f[k] + SumOver(f, keys \ {k})

\* model versions registered in the workspace so far
RegisteredVersions == SumOver(azModels, DOMAIN azModels)

\* a fresh primary key (default_uuid) for a table no row is deleted from
FreshId(table) == Cardinality(table) + 1

\* a variant that adds a row whether or not the user has one for the name
CreateOrUpdateModelRecordAdding(models, user, dr, experimentId, runId) ==
    LET row == [id |-> FreshId(models), user_id |-> user,
                experiment_id |-> experimentId, run_id |-> runId,
                azure_model_name |-> dr.model_reference.name,
                azure_model_version |-> dr.model_reference.version,
                model_uri |-> <<"azureml://models", dr.model_reference.name,
                                dr.model_reference.version>>,
                best_score |-> dr.model_score,
                algorithm |-> dr.algorithm,
                registration_status |-> "registered"]
    IN  [models |-> models \cup {row}, id |-> row.id]

\* create_or_update_model_record: the models table after the add or the
\* update, and the id of the row
CreateOrUpdateModelRecord(models, user, dr, experimentId, runId) ==
    LET modelName == dr.model_reference.name
        modelVersion == dr.model_reference.version
        modelUri == <<"azureml://models", modelName, modelVersion>>
        existing == {m \in models : m.azure_model_name = modelName /\ m.user_id = user}
    IN  IF existing = {}
        THEN LET row == [id |-> FreshId(models), user_id |-> user,
                         experiment_id |-> experimentId, run_id |-> runId,
                         azure_model_name |-> modelName,
                         azure_model_version |-> modelVersion,
                         model_uri |-> modelUri,
                         best_score |-> dr.model_score,
                         algorithm |-> dr.algorithm,
                         registration_status |-> "registered"]
             IN  [models |-> models \cup {row}, id |-> row.id]
        ELSE LET old == CHOOSE m \in existing : TRUE
                 row == [old EXCEPT !.azure_model_version = modelVersion,
                                    !.best_score = dr.model_score,
                                    !.registration_status = "registered",
                                    !.algorithm = dr.algorithm,
                                    !.model_uri = modelUri,
                                    !.run_id = IF runId # None THEN runId ELSE @]
             IN  [models |-> (models \ {old}) \cup {row}, id |-> row.id]

\* the endpoint row is created or updated
CreateOrUpdateEndpointRecord(endpoints, user, dr, experimentId, runId, modelId) ==
    LET existing == {x \in endpoints : /\ x.azure_endpoint_name = dr.endpoint_name
                                       /\ x.user_id = user}
    IN  IF existing = {}
        THEN LET row == [id |-> FreshId(endpoints), user_id |-> user,
                         azure_endpoint_name |-> dr.endpoint_name,
                         azure_endpoint_url |-> dr.endpoint_url,
                         experiment_id |-> experimentId, run_id |-> runId,
                         model_id |-> modelId, deployment_status |-> "deployed",
                         \* the JSON column: <<>> is NULL, <<t>> holds the map t
                         traffic |-> <<>>]
             IN  [endpoints |-> endpoints \cup {row}, id |-> row.id]
        ELSE LET old == CHOOSE x \in existing : TRUE
                 row == [old EXCEPT !.azure_endpoint_url = dr.endpoint_url,
                                    !.deployment_status = "deployed",
                                    !.model_id = modelId,
                                    !.run_id = IF runId # None THEN runId ELSE @]
             IN  [endpoints |-> (endpoints \ {old}) \cup {row}, id |-> row.id]

\* where the session can fail while the three rows are written
DbFailures == {"none", "flush_model", "flush_endpoint", "commit"}

\* a variant without db.rollback(): what was flushed before the failure stays
PersistDeploymentKeepingFlushed(db, user, dr, experimentId, runId, body, dbFailure) ==
    LET m == CreateOrUpdateModelRecord(db.models, user, dr, experimentId, runId)
        x == CreateOrUpdateEndpointRecord(db.endpoints, user, dr, experimentId,
                                          runId, m.id)
        row == [id |-> FreshId(db.deployments), user_id |-> user,
                endpoint_id |-> x.id, model_id |-> m.id,
                deployment_name |-> dr.deployment_name,
                traffic_percentage |-> body.traffic_percentage,
                deployment_status |-> dr.deployment_status]
        duplicate == \E d \in db.deployments :
                        /\ d.endpoint_id = row.endpoint_id
                        /\ d.deployment_name = row.deployment_name
    IN  IF dbFailure = "flush_model"
        THEN [committed |-> FALSE, db |-> db]
        ELSE IF dbFailure = "flush_endpoint"
        THEN [committed |-> FALSE, db |-> [db EXCEPT !.models = m.models]]
        ELSE IF dbFailure # "none" \/ duplicate
        THEN [committed |-> FALSE,
              db |-> [db EXCEPT !.models = m.models, !.endpoints = x.endpoints]]
        ELSE [committed |-> TRUE,
              db |-> [models |-> m.models, endpoints |-> x.endpoints,
                      deployments |-> db.deployments \cup {row}]]

\* the inner try block of both routes: the tables after it and whether it
\* committed; an exception rolls the session back
PersistDeployment(db, user, dr, experimentId, runId, body, dbFailure) ==
    LET m == CreateOrUpdateModelRecord(db.models, user, dr, experimentId, runId)
        x == CreateOrUpdateEndpointRecord(db.endpoints, user, dr, experimentId,
                                          runId, m.id)
        row == [id |-> FreshId(db.deployments), user_id |-> user,
                endpoint_id |-> x.id, model_id |-> m.id,
                deployment_name |-> dr.deployment_name,
                traffic_percentage |-> body.traffic_percentage,
                deployment_status |-> dr.deployment_status]
        \* unique index ix_deployment_name_endpoint
        duplicate == \E d \in db.deployments :
                        /\ d.endpoint_id = row.endpoint_id
                        /\ d.deployment_name = row.deployment_name
    IN  IF dbFailure # "none" \/ duplicate
        THEN [committed |-> FALSE, db |-> db]
        ELSE [committed |-> TRUE,
              db |-> [models |-> m.models, endpoints |-> x.endpoints,
                      deployments |-> db.deployments \cup {row}]]

\* DeploymentRequest bodies; NoBody is the request parameter left at None
NoBody == [present |-> FALSE]
RequestBodies ==
    {[present |-> TRUE, endpoint_name |-> n, deployment_name |-> d,
      traffic_percentage |-> 100] :
        n \in EndpointNames, d \in RequestedDeploymentNames \cup {NoDeploymentName}}

\* the service runs at the route level with these outcomes
RouteOutcomes == OutcomesVarying({"reg1", "deploy"})

\* a lookup by id alone
RowsWithId(table, id, user) == {x \in table : x.id = id}

\* db.query(...).filter(id == ..., user_id == current_user.user_id)
OwnedRows(table, id, user) == {x \in table : x.id = id /\ x.user_id = user}

\* HTTPException raised inside the route's try block is caught by its
\* "except Exception" and re-raised with status 500
HttpError(status, detail) == [status_code |-> status, detail |-> detail]

\* a route that turns the failed database write into an error response
DeploymentResponseOrError(dr, committed) ==
    IF committed
    THEN [status_code |-> 200, endpoint_url |-> dr.endpoint_url,
          deployment_status |-> dr.deployment_status, message |-> "success"]
    ELSE HttpError(500, "database error")

\* the DeploymentResponse of the try block and of "except Exception as db_error"
DeploymentResponse(dr, committed) ==
    [status_code |-> 200, endpoint_url |-> dr.endpoint_url,
     deployment_status |-> dr.deployment_status,
     message |-> IF committed THEN "success" ELSE "warning"]

\* AzureAutoMLService.deploy_best_model_from_experiment, the method of the
\* service facade both routes call: it hands the call to DeploymentService
FacadeDeployBestModelFromExperiment(az, experimentName, endpointName, deploymentName, trafficPercentage, fresh, o) ==
    DeployBestModelFromExperiment(az, experimentName, endpointName,
                                  deploymentName, trafficPercentage, fresh, o)

\* everything after the ownership check, shared by the two routes
DeployAndPersist(user, parentName, experimentId, runId, body, o, dbFailure) ==
    \E r \in {FacadeDeployBestModelFromExperiment(
                 Az, parentName, body.endpoint_name, body.deployment_name,
                 body.traffic_percentage, GeneratedName(nextId + 1), o)} :
        /\ calls' = r.calls
        /\ azModels' = r.az.models
        /\ azEndpoints' = r.az.endpoints
        /\ nextId' = IF body.deployment_name = NoDeploymentName
                     THEN nextId + 1 ELSE nextId
        /\ IF ~r.ok
           THEN /\ result' = HttpError(500, "deploy failed")
                /\ UNCHANGED <<dbModels, dbEndpoints, dbDeployments>>
           ELSE \E w \in {PersistDeployment([models |-> dbModels, endpoints |-> dbEndpoints,
                                              deployments |-> dbDeployments], user, r.value, experimentId,
                                            runId, body, dbFailure)} :
                    /\ dbModels' = w.db.models
                    /\ dbEndpoints' = w.db.endpoints
                    /\ dbDeployments' = w.db.deployments
                    /\ result' = DeploymentResponse(r.value, w.committed)

RouteDeployExperiment ==
    \E user \in Users, id \in ExperimentNames, body \in RequestBodies \cup {NoBody} :
        /\ RegisteredVersions < MaxVersions
        /\ body.present => (body.deployment_name = NoDeploymentName => nextId < MaxIds)
        /\ req' = [op |-> "route_deploy_experiment", user |-> user, id |-> id,
                   body |-> body]
        /\ LET found == OwnedRows(dbExperiments, id, user)
           IN  IF found = {}
               THEN /\ result' = HttpError(500, "404: not found or access denied")
                    /\ calls' = <<>>
                    /\ UNCHANGED <<azModels, azEndpoints, dbModels, dbEndpoints,
                                   dbDeployments, nextId>>
               ELSE IF ~body.present
               THEN /\ result' = HttpError(500, "AttributeError")
                    /\ calls' = <<>>
                    /\ UNCHANGED <<azModels, azEndpoints, dbModels, dbEndpoints,
                                   dbDeployments, nextId>>
               ELSE \E o \in RouteOutcomes, dbFailure \in DbFailures :
                        DeployAndPersist(user, id, id, None, body, o, dbFailure)
        /\ UNCHANGED <<azJobs, azSubmitted, dbExperiments, dbRuns, dbUsers, dbRoles, dbDatasets>>

RouteDeployRun ==
    \E user \in Users, id \in RunIds, body \in RequestBodies \cup {NoBody} :
        /\ req' = [op |-> "route_deploy_run", user |-> user, id |-> id,
                   body |-> body]
        /\ RegisteredVersions < MaxVersions
        /\ body.present => (body.deployment_name = NoDeploymentName => nextId < MaxIds)
        /\ LET found == OwnedRows(dbRuns, id, user)
           IN  IF found = {}
               THEN /\ result' = HttpError(500, "404: not found or access denied")
                    /\ calls' = <<>>
                    /\ UNCHANGED <<azModels, azEndpoints, dbModels, dbEndpoints,
                                   dbDeployments, nextId>>
               ELSE IF ~body.present
               THEN /\ result' = HttpError(500, "AttributeError")
                    /\ calls' = <<>>
                    /\ UNCHANGED <<azModels, azEndpoints, dbModels, dbEndpoints,
                                   dbDeployments, nextId>>
               ELSE LET run == CHOOSE x \in found : TRUE
                        parentName == IF run.experiment_id # None
                                      THEN run.experiment_id ELSE id
                    IN  \E o \in RouteOutcomes, dbFailure \in DbFailures :
                            DeployAndPersist(user, parentName, run.experiment_id,
                                             id, body, o, dbFailure)
        /\ UNCHANGED <<azJobs, azSubmitted, dbExperiments, dbRuns, dbUsers, dbRoles, dbDatasets>>

\* traffic_allocation bodies, Dict[str, int] as a set of <<name, percentage>>
TrafficAllocations ==
    {{}, {<<"blue", 100>>}, {<<"blue", 50>>},
     {<<"blue", 60>>, <<"green", 40>>}, {<<"blue", 50>>, <<"green", 30>>}}

\* the service's map keyed by the deployment names of the workspace
AsDeploymentTraffic(allocation) == {<< <<p[1], 0>>, p[2] >> : p \in allocation}

\* POST /deploy/{endpoint_name}/traffic
RouteUpdateTraffic ==
    \E user \in Users, name \in EndpointNames, allocation \in TrafficAllocations,
       o \in OutcomesVarying({"trafficGet", "trafficUpdate"}) :
        /\ req' = [op |-> "route_update_traffic", user |-> user,
                   endpoint_name |-> name, traffic_allocation |-> allocation]
        /\ IF SumValues(allocation) # 100
           THEN /\ result' = HttpError(500, "400: Traffic allocation must sum to 100")
                /\ calls' = <<>>
                /\ UNCHANGED azEndpoints
           ELSE \E r \in {UpdateEndpointTraffic(Az, name,
                                                AsDeploymentTraffic(allocation), o)} :
                    \* Azure accepts traffic only for deployments of the endpoint
                    /\ r.ok => \A p \in AsDeploymentTraffic(allocation) :
                                   p[1] \in azEndpoints[name].deployments
                    /\ calls' = r.calls
                    /\ azEndpoints' = r.az.endpoints
                    /\ result' = IF r.ok
                                 THEN [status_code |-> 200, endpoint_name |-> name,
                                       traffic_allocation |-> r.value]
                                 ELSE HttpError(500, "Failed to update endpoint traffic")
        /\ UNCHANGED <<azJobs, azSubmitted, azModels, dbVars, nextId>>

\* the experiment and run rows the deploy routes start from: u1 owns
\* experiment e1, run r1 of e1 and the stand-alone run r2; e2 and r3 have no row
RouteInit ==
    /\ azJobs = [e \in ParentJobNames |->
                    NameJobs(<< << <<"score", "0.9">> >> >>)]
    /\ InitAzure
    /\ InitOperation
    /\ dbExperiments = {[id |-> "e1", user_id |-> "u1", dataset_id |-> None]}
    /\ dbRuns = {[id |-> "r1", user_id |-> "u1", experiment_id |-> "e1"],
                 [id |-> "r2", user_id |-> "u1", experiment_id |-> None]}
    /\ dbModels = {}
    /\ dbEndpoints = {}
    /\ dbDeployments = {}
    /\ dbUsers = {}
    /\ dbRoles = {}
    /\ dbDatasets = {}

RouteNext ==
    \/ RouteDeployExperiment
    \/ RouteDeployRun
    \/ RouteUpdateTraffic

RouteSpec == RouteInit /\ [][RouteNext]_vars

----------------------------------------------------------------------------
(* The other paths that set endpoint traffic                              *)

\* PUT /endpoints/{endpoint_id}/traffic (update_traffic): the row is looked
\* up by id alone, the form field parsed as JSON, and the parsed map handed
\* to the service as it is; wellFormed is whether json.loads returns
RoutePutEndpointTraffic ==
    \E user \in Users, id \in 1..3, allocation \in TrafficAllocations :
    \E wellFormed \in IF allocation = {} THEN BOOLEAN ELSE {TRUE} :
        /\ req' = [op |-> "put_endpoint_traffic", user |-> user, id |-> id,
                   traffic_allocation |-> allocation, well_formed |-> wellFormed]
        /\ LET found == RowsWithId(dbEndpoints, id, user)
           IN  IF found = {}
               THEN /\ result' = HttpError(404, "Endpoint not found")
                    /\ calls' = <<>>
                    /\ UNCHANGED <<azEndpoints, dbEndpoints>>
               ELSE LET record == CHOOSE x \in found : TRUE
                    IN  IF record.azure_endpoint_name = None
                        THEN /\ result' = HttpError(400, "Endpoint is not linked to Azure ML")
                             /\ calls' = <<>>
                             /\ UNCHANGED <<azEndpoints, dbEndpoints>>
                        ELSE IF ~wellFormed
                        THEN /\ result' = HttpError(400, "Invalid JSON format for traffic allocation")
                             /\ calls' = <<>>
                             /\ UNCHANGED <<azEndpoints, dbEndpoints>>
                        ELSE \E o \in OutcomesVarying({"trafficGet", "trafficUpdate"}) :
                             \E r \in {UpdateEndpointTraffic(
                                          Az, record.azure_endpoint_name,
                                          AsDeploymentTraffic(allocation), o)} :
                             \* db.commit() is reached only after the service returned
                             \E commitOk \in IF r.ok THEN BOOLEAN ELSE {TRUE} :
                                 \* Azure accepts traffic only for deployments of the endpoint
                                 /\ r.ok => \A p \in AsDeploymentTraffic(allocation) :
                                                p[1] \in azEndpoints[record.azure_endpoint_name].deployments
                                 /\ calls' = r.calls \o
                                        (IF r.ok THEN <<Call("db.commit", <<>>, commitOk)>>
                                         ELSE <<>>)
                                 /\ azEndpoints' = r.az.endpoints
                                 /\ dbEndpoints' =
                                        IF r.ok /\ commitOk
                                        THEN (dbEndpoints \ {record})
                                             \cup {[record EXCEPT !.traffic = <<r.value>>]}
                                        ELSE dbEndpoints
                                 /\ result' =
                                        IF r.ok /\ commitOk
                                        THEN [status_code |-> 200,
                                              message |-> "Traffic allocation updated successfully",
                                              traffic |-> r.value]
                                        ELSE HttpError(500, "Failed to update traffic")
        /\ UNCHANGED <<azJobs, azSubmitted, azModels, dbExperiments, dbRuns,
                       dbModels, dbDeployments, dbUsers, dbRoles, dbDatasets, nextId>>

\* a variant that hands a traffic_percentage of 0 to update_endpoint_traffic too
EndpointServiceCreateDeploymentSettingZero ==
    \E name \in EndpointNames, d \in RequestedDeploymentNames,
       modelVersion \in 0..1, pct \in {0, 50, 100},
       o \in OutcomesVarying({"list", "deploy", "trafficGet", "trafficUpdate"}) :
        LET modelName == ModelNameOf("e1")
            listed == IF modelVersion = 0
                      THEN <<Call("models.list", <<modelName>>, o.list)>>
                      ELSE <<>>
            resolved == modelVersion # 0 \/ (o.list /\ azModels[modelName] > 0)
            created == azEndpoints[name].exists /\ o.deploy
            put == listed \o <<Call("online_deployments.begin_create_or_update",
                                    <<name, d>>, created)>>
            az1 == [Az EXCEPT !.endpoints[name].deployments = @ \cup {d}]
            r == IF ~resolved THEN Raised(listed, Az)
                 ELSE IF ~created THEN Raised(put, Az)
                 ELSE IF pct >= 0
                 THEN LET t == UpdateEndpointTraffic(az1, name, {<<d, pct>>}, o)
                      IN  IF t.ok THEN Returned(put \o t.calls, t.az, d)
                          ELSE Raised(put \o t.calls, t.az)
                 ELSE Returned(put, az1, d)
        IN  /\ req' = [op |-> "create_deployment", endpoint_name |-> name,
                       deployment_name |-> d, model_version |-> modelVersion,
                       traffic_percentage |-> pct]
            /\ calls' = r.calls
            /\ azEndpoints' = r.az.endpoints
            /\ result' = IF r.ok THEN [status |-> "ok", value |-> r.value]
                         ELSE [status |-> "error"]
            /\ UNCHANGED <<azJobs, azSubmitted, azModels, dbVars, nextId>>

\* EndpointService.create_deployment: the model reference is resolved (the
\* latest version is listed when model_version is None, written 0), the
\* deployment created, and a positive traffic_percentage handed to
\* update_endpoint_traffic as {deployment_name: traffic_percentage}
EndpointServiceCreateDeployment ==
    \E name \in EndpointNames, d \in RequestedDeploymentNames,
       modelVersion \in 0..1, pct \in {0, 50, 100},
       o \in OutcomesVarying({"list", "deploy", "trafficGet", "trafficUpdate"}) :
        LET modelName == ModelNameOf("e1")
            listed == IF modelVersion = 0
                      THEN <<Call("models.list", <<modelName>>, o.list)>>
                      ELSE <<>>
            resolved == modelVersion # 0 \/ (o.list /\ azModels[modelName] > 0)
            created == azEndpoints[name].exists /\ o.deploy
            put == listed \o <<Call("online_deployments.begin_create_or_update",
                                    <<name, d>>, created)>>
            az1 == [Az EXCEPT !.endpoints[name].deployments = @ \cup {d}]
            r == IF ~resolved THEN Raised(listed, Az)
                 ELSE IF ~created THEN Raised(put, Az)
                 ELSE IF pct > 0
                 THEN LET t == UpdateEndpointTraffic(az1, name, {<<d, pct>>}, o)
                      IN  IF t.ok THEN Returned(put \o t.calls, t.az, d)
                          ELSE Raised(put \o t.calls, t.az)
                 ELSE Returned(put, az1, d)
        IN  /\ req' = [op |-> "create_deployment", endpoint_name |-> name,
                       deployment_name |-> d, model_version |-> modelVersion,
                       traffic_percentage |-> pct]
            /\ calls' = r.calls
            /\ azEndpoints' = r.az.endpoints
            /\ result' = IF r.ok THEN [status |-> "ok", value |-> r.value]
                         ELSE [status |-> "error"]
            /\ UNCHANGED <<azJobs, azSubmitted, azModels, dbVars, nextId>>

\* DeploymentService.deploy_registered_model(model_reference, endpoint_name,
\* deployment_name, ..., traffic_percentage)
ServiceDeployRegisteredModel ==
    \E name \in EndpointNames, d \in RequestedDeploymentNames,
       pct \in {0, 50, 100},
       o \in OutcomesVarying({"deploy", "trafficGet", "trafficUpdate"}) :
    \E r \in {DeployRegisteredModel(Az, [name |-> ModelNameOf("e1"), version |-> 1],
                                     name, d, pct, o)} :
        /\ req' = [op |-> "deploy_registered_model", endpoint_name |-> name,
                   deployment_name |-> d, traffic_percentage |-> pct]
        /\ calls' = r.calls
        /\ azEndpoints' = r.az.endpoints
        /\ result' = IF r.ok THEN [status |-> "ok", value |-> r.value]
                     ELSE [status |-> "error"]
        /\ UNCHANGED <<azJobs, azSubmitted, azModels, dbVars, nextId>>

\* an endpoint that was deployed to twice: ep1 exists in the workspace with
\* the deployments blue and green sharing the traffic, and version 1 of the
\* model; u1 owns
\* its row 1, and row 2 is an endpoint that was never linked to Azure ML
TrafficInit ==
    /\ azJobs = [e \in ParentJobNames |-> <<>>]
    /\ azModels = [m \in {ModelNameOf(e) : e \in ParentJobNames} |->
                      IF m = ModelNameOf("e1") THEN 1 ELSE 0]
    /\ azEndpoints = [n \in EndpointNames |->
                         [exists |-> TRUE, description |-> "automl",
                          tags |-> "automl", auth_mode |-> "key",
                          traffic |-> {<< <<"blue", 0>>, 60 >>,
                                       << <<"green", 0>>, 40 >>},
                          deployments |-> {<<"blue", 0>>, <<"green", 0>>}]]
    /\ azSubmitted = 0
    /\ InitOperation
    /\ dbExperiments = {}
    /\ dbRuns = {}
    /\ dbModels = {}
    /\ dbEndpoints = {[id |-> 1, user_id |-> "u1", azure_endpoint_name |-> "ep1",
                       azure_endpoint_url |-> <<"scoring_uri", "ep1">>,
                       experiment_id |-> None, run_id |-> None, model_id |-> None,
                       deployment_status |-> "deployed", traffic |-> <<>>],
                      [id |-> 2, user_id |-> "u1", azure_endpoint_name |-> None,
                       azure_endpoint_url |-> None,
                       experiment_id |-> None, run_id |-> None, model_id |-> None,
                       deployment_status |-> "creating", traffic |-> <<>>]}
    /\ dbDeployments = {}
    /\ dbUsers = {}
    /\ dbRoles = {}
    /\ dbDatasets = {}

TrafficNext ==
    \/ RoutePutEndpointTraffic
    \/ EndpointServiceCreateDeployment
    \/ ServiceDeployRegisteredModel

TrafficSpec == TrafficInit /\ [][TrafficNext]_vars

----------------------------------------------------------------------------
(* auth.py: the current user and the role gate                             *)

UserRole == {"USER", "MAINTAINER", "ADMIN"}

\* role_hierarchy in has_role
RoleHierarchy == ("USER" :> 1) @@ ("MAINTAINER" :> 2) @@ ("ADMIN" :> 3)

\* a comparison that shuts out the required level itself
HasRoleAbove(role, requiredRole) ==
    IF role = None \/ role = "" THEN "False"
    ELSE IF role \notin UserRole THEN "ValueError"
    ELSE IF RoleHierarchy[role] > RoleHierarchy[requiredRole] THEN "True"
    ELSE "False"

\* UserInfo.has_role: "True", "False", or "ValueError" when UserRole(self.role)
\* raises for a role name outside the enum
HasRole(role, requiredRole) ==
    IF role = None \/ role = "" THEN "False"
    ELSE IF role \notin UserRole THEN "ValueError"
    ELSE IF RoleHierarchy[role] >= RoleHierarchy[requiredRole] THEN "True"
    ELSE "False"

\* bearer tokens: a valid one carries sub, "nosub" is signed with the secret
\* but has no sub claim, and jwt.decode raises for "invalid"
Tokens ==
    {[kind |-> "valid", sub |-> c] :
        c \in {"admin", "maint", "user", "owner", "blank", "norole", "ghost"}}
    \cup {[kind |-> "nosub", sub |-> None], [kind |-> "invalid", sub |-> None]}

\* get_current_user: the UserInfo, or ok = FALSE for HTTPException(403).  The
\* HTTPException(401) for a payload without sub is raised inside the try and
\* caught by its `except Exception`, as the error of jwt.decode is
GetCurrentUser(token, users, roles) ==
    IF token.kind # "valid"
    THEN [ok |-> FALSE, user_id |-> None, role |-> None]
    ELSE LET roleRows == {r \in roles : \E u \in users :
                             /\ u.id = token.sub
                             /\ u.role_id # None
                             /\ r.id = u.role_id}
         IN  [ok |-> TRUE, user_id |-> token.sub,
              role |-> IF roleRows = {} THEN None
                       ELSE (CHOOSE r \in roleRows : TRUE).name]

\* the wrapper of require_role: pass, or the response it raises
RequireRole(currentUser, requiredRole) ==
    LET held == HasRole(currentUser.role, requiredRole)
    IN  IF held = "True" THEN [pass |-> TRUE, response |-> HttpError(200, "")]
        ELSE IF held = "False"
        THEN [pass |-> FALSE,
              response |-> HttpError(403, "Insufficient privileges")]
        ELSE [pass |-> FALSE, response |-> HttpError(500, "ValueError")]

\* a gate one level too low
RequireAdminAsMaintainer(currentUser) == RequireRole(currentUser, "MAINTAINER")

RequireAdmin(currentUser) == RequireRole(currentUser, "ADMIN")

RequireMaintainer(currentUser) == RequireRole(currentUser, "MAINTAINER")

\* Depends(get_current_user) runs before the wrapper of require_role: its
\* HTTPException(403) answers the request, otherwise the wrapper's verdict does
Gated(currentUser, verdict) ==
    IF ~currentUser.ok
    THEN [pass |-> FALSE, response |-> HttpError(403, "Authentication failed")]
    ELSE verdict

----------------------------------------------------------------------------
(* db/models.py: deleting rows under the foreign keys of the schema        *)

Db == [datasets |-> dbDatasets, experiments |-> dbExperiments, runs |-> dbRuns,
       models |-> dbModels, endpoints |-> dbEndpoints,
       deployments |-> dbDeployments]

\* DELETE FROM endpoints: deployments.endpoint_id ON DELETE CASCADE
DeleteEndpointRows(db, gone) ==
    [db EXCEPT !.endpoints = {x \in @ : x.id \notin gone},
               !.deployments = {d \in @ : d.endpoint_id \notin gone}]

\* DELETE FROM models: endpoints.model_id and deployments.model_id CASCADE
DeleteModelRows(db, gone) ==
    LET db1 == DeleteEndpointRows(db, {x.id : x \in {y \in db.endpoints :
                                                       y.model_id \in gone}})
    IN  [db1 EXCEPT !.models = {m \in @ : m.id \notin gone},
                    !.deployments = {d \in @ : d.model_id \notin gone}]

\* ON DELETE SET NULL of a column of the endpoints table
EndpointColumnSetNull(endpoints, column, gone) ==
    {IF x[column] \in gone THEN [x EXCEPT ![column] = None] ELSE x : x \in endpoints}

\* DELETE FROM runs: models.run_id CASCADE, endpoints.run_id SET NULL
DeleteRunRows(db, gone) ==
    LET db1 == DeleteModelRows(db, {m.id : m \in {y \in db.models :
                                                    y.run_id \in gone}})
    IN  [db1 EXCEPT !.runs = {r \in @ : r.id \notin gone},
                    !.endpoints = EndpointColumnSetNull(@, "run_id", gone)]

\* DELETE FROM experiments: runs.experiment_id and models.experiment_id
\* CASCADE, endpoints.experiment_id SET NULL
DeleteExperimentRows(db, gone) ==
    LET db1 == DeleteRunRows(db, {r.id : r \in {y \in db.runs :
                                                  y.experiment_id \in gone}})
        db2 == DeleteModelRows(db1, {m.id : m \in {y \in db1.models :
                                                     y.experiment_id \in gone}})
    IN  [db2 EXCEPT !.experiments = {e \in @ : e.id \notin gone},
                    !.endpoints = EndpointColumnSetNull(@, "experiment_id", gone)]

\* DELETE FROM datasets: experiments.dataset_id CASCADE
DeleteDatasetRows(db, gone) ==
    LET db1 == DeleteExperimentRows(db, {e.id : e \in {y \in db.experiments :
                                                         y.dataset_id \in gone}})
    IN  [db1 EXCEPT !.datasets = {d \in @ : d.id \notin gone}]

\* the six tables after a commit
Commit(db) ==
    /\ dbDatasets' = db.datasets
    /\ dbExperiments' = db.experiments
    /\ dbRuns' = db.runs
    /\ dbModels' = db.models
    /\ dbEndpoints' = db.endpoints
    /\ dbDeployments' = db.deployments

NoCommit ==
    UNCHANGED <<dbDatasets, dbExperiments, dbRuns, dbModels, dbEndpoints,
                dbDeployments>>

----------------------------------------------------------------------------
(* The routes behind require_maintainer                                    *)

\* path ids: a row of the table and an id no row has
GateIds(kind) == {kind \o "1", kind \o "9"}
\* the backend applies the ON DELETE rules (Azure SQL), or deletes the one
\* row (SQLite without the foreign_keys pragma); db.commit() may raise
DeleteAndCommit(cascaded, single) ==
    \E enforced \in BOOLEAN, commitOk \in BOOLEAN :
        IF commitOk
        THEN result' = HttpError(204, "") /\ Commit(IF enforced THEN cascaded ELSE single)
        ELSE result' = HttpError(500, "commit") /\ NoCommit

\* the body of delete_dataset, delete_experiment and delete_run: db.get,
\* 404, db.delete, db.commit, 204
DeleteRecord(op, token, id, found, cascaded, single) ==
    LET currentUser == GetCurrentUser(token, dbUsers, dbRoles)
        gate == Gated(currentUser, RequireMaintainer(currentUser))
    IN  /\ req' = [op |-> op, token |-> token, id |-> id]
        /\ calls' = <<>>
        /\ IF ~gate.pass
           THEN result' = gate.response /\ NoCommit
           ELSE IF ~found
           THEN result' = HttpError(404, "not found") /\ NoCommit
           ELSE DeleteAndCommit(cascaded, single)
        /\ UNCHANGED <<azJobs, azSubmitted, azModels, azEndpoints, dbUsers,
                       dbRoles, nextId>>

GateDeleteDataset ==
    \E token \in Tokens, id \in GateIds("d") :
        DeleteRecord("delete_dataset", token, id,
                     \E d \in dbDatasets : d.id = id,
                     DeleteDatasetRows(Db, {id}),
                     [Db EXCEPT !.datasets = {d \in @ : d.id # id}])

GateDeleteExperiment ==
    \E token \in Tokens, id \in GateIds("e") :
        DeleteRecord("delete_experiment", token, id,
                     \E e \in dbExperiments : e.id = id,
                     DeleteExperimentRows(Db, {id}),
                     [Db EXCEPT !.experiments = {e \in @ : e.id # id}])

GateDeleteRun ==
    \E token \in Tokens, id \in GateIds("r") :
        DeleteRecord("delete_run", token, id,
                     \E r \in dbRuns : r.id = id,
                     DeleteRunRows(Db, {id}),
                     [Db EXCEPT !.runs = {r \in @ : r.id # id}])

\* a delete_endpoint whose body runs ahead of the role check
GateDeleteEndpointCheckingLate ==
    \E token \in Tokens, id \in GateIds("x") :
        LET currentUser == GetCurrentUser(token, dbUsers, dbRoles)
            gate == Gated(currentUser, RequireMaintainer(currentUser))
            rows == {x \in dbEndpoints : x.id = id}
        IN  /\ req' = [op |-> "delete_endpoint", token |-> token, id |-> id]
            /\ calls' = <<>>
            /\ IF rows = {}
               THEN /\ result' = IF gate.pass THEN HttpError(404, "not found")
                                  ELSE gate.response
                    /\ NoCommit
               ELSE /\ result' = IF gate.pass THEN HttpError(204, "")
                                  ELSE gate.response
                    /\ Commit(DeleteEndpointRows(Db, {id}))
            /\ UNCHANGED <<azJobs, azSubmitted, azModels, azEndpoints, dbUsers,
                           dbRoles, nextId>>

\* delete_endpoint: the Azure endpoint goes first, and the row stays when
\* that call raises
GateDeleteEndpoint ==
    \E token \in Tokens, id \in GateIds("x") :
        LET currentUser == GetCurrentUser(token, dbUsers, dbRoles)
            gate == Gated(currentUser, RequireMaintainer(currentUser))
            rows == {x \in dbEndpoints : x.id = id}
            record == CHOOSE x \in rows : TRUE
            name == record.azure_endpoint_name
        IN  /\ req' = [op |-> "delete_endpoint", token |-> token, id |-> id]
            /\ IF ~gate.pass
               THEN /\ result' = gate.response
                    /\ calls' = <<>>
                    /\ NoCommit
                    /\ UNCHANGED azEndpoints
               ELSE IF rows = {}
               THEN /\ result' = HttpError(404, "not found")
                    /\ calls' = <<>>
                    /\ NoCommit
                    /\ UNCHANGED azEndpoints
               ELSE IF name = None
               THEN /\ calls' = <<>>
                    /\ UNCHANGED azEndpoints
                    /\ DeleteAndCommit(DeleteEndpointRows(Db, {id}),
                                       [Db EXCEPT !.endpoints = {x \in @ : x.id # id}])
               ELSE \E azureOk \in BOOLEAN :
                    /\ calls' = <<Call("online_endpoints.begin_delete",
                                       <<name>>, azureOk)>>
                    /\ IF azureOk
                       THEN /\ azEndpoints' = [azEndpoints EXCEPT ![name] = AbsentEndpoint]
                            /\ DeleteAndCommit(DeleteEndpointRows(Db, {id}),
                                               [Db EXCEPT !.endpoints = {x \in @ : x.id # id}])
                       ELSE /\ result' = HttpError(500, "Failed to delete from Azure ML")
                            /\ NoCommit
                            /\ UNCHANGED azEndpoints
            /\ UNCHANGED <<azJobs, azSubmitted, azModels, dbUsers, dbRoles, nextId>>

\* UserInfo.has_role called with a role name and a required role
AuthHasRole ==
    \E role \in {None, "", "USER", "MAINTAINER", "ADMIN", "OWNER"}, required \in UserRole :
        /\ req' = [op |-> "has_role", role |-> role, required |-> required]
        /\ result' = [value |-> HasRole(role, required)]
        /\ calls' = <<>>
        /\ NoCommit
        /\ UNCHANGED <<azJobs, azSubmitted, azModels, azEndpoints, dbUsers,
                       dbRoles, nextId>>

\* every role name the roles table can hold, and a user for each
GateRoles ==
    {[id |-> "ra", name |-> "ADMIN"], [id |-> "rm", name |-> "MAINTAINER"],
     [id |-> "ru", name |-> "USER"], [id |-> "rx", name |-> "OWNER"],
     [id |-> "re", name |-> ""]}

GateUsers ==
    {[id |-> "admin", role_id |-> "ra"], [id |-> "maint", role_id |-> "rm"],
     [id |-> "user", role_id |-> "ru"], [id |-> "owner", role_id |-> "rx"],
     [id |-> "blank", role_id |-> "re"], [id |-> "norole", role_id |-> None]}

GateInit ==
    /\ azJobs = [e \in ParentJobNames |-> <<>>]
    /\ azModels = [m \in {ModelNameOf(e) : e \in ParentJobNames} |-> 0]
    /\ azEndpoints = [n \in EndpointNames |->
                         [AbsentEndpoint EXCEPT !.exists = TRUE, !.auth_mode = "key"]]
    /\ azSubmitted = 0
    /\ InitOperation
    /\ dbRoles = GateRoles
    /\ dbUsers = GateUsers
    /\ dbDatasets = {[id |-> "d1", user_id |-> "user"]}
    /\ dbExperiments = {[id |-> "e1", user_id |-> "user",
                         dataset_id |-> "d1"]}
    /\ dbRuns = {[id |-> "r1", user_id |-> "user",
                  experiment_id |-> "e1"]}
    /\ dbModels = {[id |-> "m1", user_id |-> "user",
                    experiment_id |-> "e1", run_id |-> "r1"]}
    /\ dbEndpoints = {[id |-> "x1", user_id |-> "user",
                       azure_endpoint_name |-> "ep1",
                       experiment_id |-> "e1", run_id |-> "r1",
                       model_id |-> "m1"],
                      [id |-> "x9", user_id |-> "user",
                       azure_endpoint_name |-> None,
                       experiment_id |-> None, run_id |-> None,
                       model_id |-> None]}
    /\ dbDeployments = {[id |-> "p1", user_id |-> "user",
                         endpoint_id |-> "x1",
                         model_id |-> "m1"]}

GateNext ==
    \/ GateDeleteDataset
    \/ GateDeleteExperiment
    \/ GateDeleteRun
    \/ GateDeleteEndpoint
    \/ AuthHasRole

GateSpec == GateInit /\ [][GateNext]_vars

----------------------------------------------------------------------------
(* routes/users.py: the routes behind require_admin                        *)

\* the part of the four routes ahead of their bodies
AdminGate(token) ==
    LET currentUser == GetCurrentUser(token, dbUsers, dbRoles)
    IN  Gated(currentUser, RequireAdmin(currentUser))

AdminUnchanged ==
    UNCHANGED <<azJobs, azSubmitted, azModels, azEndpoints, calls, nextId,
                dbDatasets, dbExperiments, dbRuns, dbModels, dbEndpoints,
                dbDeployments>>

\* create_user: the row is committed before User(**record.__dict__) fails
\* for want of tenant_id, which the users table does not have
AdminCreateUser ==
    \E token \in Tokens, id \in {"ghost", "user"}, roleId \in {None, "rx", "rz"} :
        LET gate == AdminGate(token)
        IN  /\ req' = [op |-> "create_user", token |-> token, id |-> id,
                       role_id |-> roleId]
            /\ IF ~gate.pass
               THEN result' = gate.response /\ UNCHANGED dbUsers
               ELSE IF roleId # None /\ ~\E r \in dbRoles : r.id = roleId
               THEN result' = HttpError(400, "Invalid role_id") /\ UNCHANGED dbUsers
               ELSE IF \E u \in dbUsers : u.id = id
               THEN result' = HttpError(500, "IntegrityError") /\ UNCHANGED dbUsers
               ELSE /\ dbUsers' = dbUsers \cup {[id |-> id, role_id |-> roleId]}
                    /\ result' = HttpError(500, "ValidationError")
            /\ UNCHANGED dbRoles
            /\ AdminUnchanged

\* create_role: roles.name is unique and not nullable, roles.id the key
AdminCreateRole ==
    \E token \in Tokens, name \in {"OWNER", "ADMIN", None} :
        LET gate == AdminGate(token)
            id == "rx"
        IN  /\ req' = [op |-> "create_role", token |-> token, id |-> id,
                       name |-> name]
            /\ IF ~gate.pass
               THEN result' = gate.response /\ UNCHANGED dbRoles
               ELSE IF \E r \in dbRoles : r.name = name
               THEN result' = HttpError(400, "Role name already exists")
                    /\ UNCHANGED dbRoles
               ELSE IF name = None \/ \E r \in dbRoles : r.id = id
               THEN result' = HttpError(500, "IntegrityError") /\ UNCHANGED dbRoles
               ELSE /\ dbRoles' = dbRoles \cup {[id |-> id, name |-> name]}
                    /\ result' = HttpError(200, "")
            /\ UNCHANGED dbUsers
            /\ AdminUnchanged

AdminDeleteUser ==
    \E token \in Tokens, id \in {"admin", "ghost", "zz"} :
        LET gate == AdminGate(token)
        IN  /\ req' = [op |-> "delete_user", token |-> token, id |-> id]
            /\ IF ~gate.pass
               THEN result' = gate.response /\ UNCHANGED dbUsers
               ELSE IF ~\E u \in dbUsers : u.id = id
               THEN result' = HttpError(404, "User not found") /\ UNCHANGED dbUsers
               ELSE /\ dbUsers' = {u \in dbUsers : u.id # id}
                    /\ result' = HttpError(200, "User deleted successfully")
            /\ UNCHANGED dbRoles
            /\ AdminUnchanged

\* a delete_role without the count of the users that hold the role, on a
\* backend that does not apply ON DELETE SET NULL
AdminDeleteRoleUncounted ==
    \E token \in Tokens, id \in {"ru", "rx", "rz"} :
        LET gate == AdminGate(token)
        IN  /\ req' = [op |-> "delete_role", token |-> token, id |-> id]
            /\ IF ~gate.pass
               THEN result' = gate.response /\ UNCHANGED dbRoles
               ELSE IF ~\E r \in dbRoles : r.id = id
               THEN result' = HttpError(404, "Role not found") /\ UNCHANGED dbRoles
               ELSE /\ dbRoles' = {r \in dbRoles : r.id # id}
                    /\ result' = HttpError(200, "Role deleted successfully")
            /\ UNCHANGED dbUsers
            /\ AdminUnchanged

\* delete_role: 404, 400 while a user holds the role, else the row goes
AdminDeleteRole ==
    \E token \in Tokens, id \in {"ru", "rx", "rz"} :
        LET gate == AdminGate(token)
        IN  /\ req' = [op |-> "delete_role", token |-> token, id |-> id]
            /\ IF ~gate.pass
               THEN result' = gate.response /\ UNCHANGED dbRoles
               ELSE IF ~\E r \in dbRoles : r.id = id
               THEN result' = HttpError(404, "Role not found") /\ UNCHANGED dbRoles
               ELSE IF \E u \in dbUsers : u.role_id = id
               THEN result' = HttpError(400, "Cannot delete role") /\ UNCHANGED dbRoles
               ELSE /\ dbRoles' = {r \in dbRoles : r.id # id}
                    /\ result' = HttpError(200, "Role deleted successfully")
            /\ UNCHANGED dbUsers
            /\ AdminUnchanged

AdminInit ==
    /\ azJobs = [e \in ParentJobNames |-> <<>>]
    /\ InitAzure
    /\ InitOperation
    /\ dbRoles = {r \in GateRoles : r.name \in UserRole}
    /\ dbUsers = {u \in GateUsers : u.role_id \in {"ra", "rm", "ru", None}}
    /\ dbDatasets = {}
    /\ dbExperiments = {}
    /\ dbRuns = {}
    /\ dbModels = {}
    /\ dbEndpoints = {}
    /\ dbDeployments = {}

AdminNext ==
    \/ AdminCreateUser
    \/ AdminCreateRole
    \/ AdminDeleteUser
    \/ AdminDeleteRole

AdminSpec == AdminInit /\ [][AdminNext]_vars

----------------------------------------------------------------------------
(* routes/models.py and routes/experiments.py                              *)

MaxSubmitted == 2

\* datetime values: null, naive, or "aware" with a UTC offset
NullTime == [kind |-> "null"]
NaiveTime(t) == [kind |-> "naive", t |-> t]

\* the fields of schemas.model.Model followed here
ModelFields == {"id", "user_id", "algorithm", "registration_status", "created_at"}
\* the defaults the schema gives the fields a body leaves out
ModelSchemaDefaults ==
    [algorithm |-> None, registration_status |-> "pending", created_at |-> NullTime]

\* Model(**body): the body with the schema defaults filled in
ModelValidate(body) ==
    [f \in ModelFields |-> IF f \in DOMAIN body THEN body[f]
                           ELSE ModelSchemaDefaults[f]]

\* a DateTime column without timezone keeps the wall clock fields and drops
\* the offset
DropTzinfo(dt) == IF dt.kind = "aware" THEN NaiveTime(dt.t) ELSE dt

\* INSERT through the ORM: a None for a column with a default or a server
\* default is left out of the statement, and the default is stored
InsertModelRow(values) ==
    [id |-> values.id,
     user_id |-> values.user_id,
     algorithm |-> values.algorithm,
     registration_status |-> IF values.registration_status = None THEN "pending"
                             ELSE values.registration_status,
     \* func.now() of the database server is NaiveTime(0)
     created_at |-> IF values.created_at = NullTime THEN NaiveTime(0)
                    ELSE DropTzinfo(values.created_at)]

\* UPDATE after setattr of every dumped field: None is stored as NULL
UpdateModelRow(values) ==
    [id |-> values.id,
     user_id |-> values.user_id,
     algorithm |-> values.algorithm,
     registration_status |-> values.registration_status,
     created_at |-> DropTzinfo(values.created_at)]

\* model_to_schema: Model.model_validate(record, from_attributes=True)
ModelToSchema(row) == [f \in ModelFields |-> row[f]]

ModelResponse(row) == [status_code |-> 200, body |-> ModelToSchema(row)]

\* request bodies: the required fields and any of the optional ones
ModelBodies ==
    {[f \in {"id", "user_id"} \cup supplied |-> full[f]] :
        full \in [id : {"m1"}, user_id : {"u1"}, algorithm : {"lgbm"},
                  registration_status : {None, "registered"},
                  created_at : {NullTime, NaiveTime(1), [kind |-> "aware", t |-> 1, offset |-> 2]}],
        supplied \in SUBSET (ModelFields \ {"id", "user_id"})}

CrudUnchanged ==
    UNCHANGED <<azJobs, azModels, azEndpoints, nextId, dbUsers, dbRoles,
                dbDatasets, dbEndpoints, dbDeployments>>

\* create_model
CrudCreateModel ==
    \E body \in ModelBodies :
        LET row == InsertModelRow(ModelValidate(body))
        IN  /\ req' = [op |-> "create_model", body |-> body]
            /\ IF \E m \in dbModels : m.id = row.id
               THEN result' = HttpError(500, "IntegrityError") /\ UNCHANGED dbModels
               ELSE dbModels' = dbModels \cup {row} /\ result' = ModelResponse(row)
            /\ UNCHANGED <<calls, azSubmitted, dbExperiments, dbRuns>>
            /\ CrudUnchanged

\* get_model
CrudGetModel ==
    \E id \in {"m1", "m2"} :
        LET rows == {m \in dbModels : m.id = id}
        IN  /\ req' = [op |-> "get_model", id |-> id]
            /\ result' = IF rows = {} THEN HttpError(404, "Model not found")
                         ELSE ModelResponse(CHOOSE m \in rows : TRUE)
            /\ UNCHANGED <<calls, azSubmitted, dbModels, dbExperiments, dbRuns>>
            /\ CrudUnchanged

\* update_model: created_at is not nullable
CrudUpdateModel ==
    \E id \in {"m1", "m2"}, body \in ModelBodies :
        LET rows == {m \in dbModels : m.id = id}
            values == ModelValidate(body)
            row == UpdateModelRow(values)
        IN  /\ req' = [op |-> "update_model", id |-> id, body |-> body]
            /\ IF rows = {}
               THEN result' = HttpError(404, "Model not found") /\ UNCHANGED dbModels
               ELSE IF values.created_at = NullTime
               THEN result' = HttpError(500, "IntegrityError") /\ UNCHANGED dbModels
               ELSE /\ dbModels' = (dbModels \ rows) \cup {row}
                    /\ result' = ModelResponse(row)
            /\ UNCHANGED <<calls, azSubmitted, dbExperiments, dbRuns>>
            /\ CrudUnchanged

\* delete_model
CrudDeleteModel ==
    \E id \in {"m1", "m2"} :
        LET rows == {m \in dbModels : m.id = id}
        IN  /\ req' = [op |-> "delete_model", id |-> id]
            /\ IF rows = {}
               THEN result' = HttpError(404, "Model not found") /\ UNCHANGED dbModels
               ELSE dbModels' = dbModels \ rows /\ result' = HttpError(204, "")
            /\ UNCHANGED <<calls, azSubmitted, dbExperiments, dbRuns>>
            /\ CrudUnchanged

\* the attributes of schemas.experiment.Experiment and schemas.run.Run, and
\* the columns of the experiments and runs tables
ExperimentSchemaFields ==
    {"id", "user_id", "dataset_id", "task_type", "primary_metric",
     "training_data", "target_column_name", "compute", "n_cross_validations",
     "enable_early_termination", "exit_score", "max_concurrent_trials",
     "max_cores_per_trial", "max_nodes", "max_trials", "timeout_minutes",
     "trial_timeout_minutes"}
RunSchemaFields ==
    {"id", "user_id", "experiment_id", "job_name", "queued_at", "started_at",
     "completed_at", "metrics", "logs_uri", "charts_uri", "best_model_id"}
ExperimentColumns ==
    {"id", "user_id", "dataset_id", "task_type", "primary_metric",
     "enable_early_termination", "exit_score", "max_concurrent_trials",
     "max_cores_per_trial", "max_nodes", "max_trials", "timeout_minutes",
     "trial_timeout_minutes", "created_at", "updated_at"}
RunColumns == RunSchemaFields \cup {"created_at", "updated_at"}

\* AzureAutoMLService.start_experiment: the job is submitted, then the Run
\* is built from config.tenant_id
StartExperiment(config, submitOk) ==
    LET submit == <<Call("jobs.create_or_update", <<config.id>>, submitOk)>>
    IN  IF ~submitOk
        THEN [ok |-> FALSE, calls |-> submit, error |-> "Exception", run |-> None]
        ELSE IF "tenant_id" \notin ExperimentSchemaFields
        THEN [ok |-> FALSE, calls |-> submit, error |-> "AttributeError",
              run |-> None]
        ELSE [ok |-> TRUE, calls |-> submit, error |-> None,
              run |-> [id |-> <<"run", config.id>>, job_name |-> <<"job", config.id>>]]

\* ExperimentService.start_experiment, which builds the Run from
\* config.user_id and config.id
ExperimentServiceStartExperiment(config, submitOk) ==
    LET submit == <<Call("jobs.create_or_update", <<config.id>>, submitOk)>>
    IN  IF ~submitOk
        THEN [ok |-> FALSE, calls |-> submit, error |-> "AzureMLClientError",
              run |-> None]
        ELSE [ok |-> TRUE, calls |-> submit, error |-> None,
              run |-> [id |-> <<"run", config.id>>, job_name |-> <<"job", config.id>>]]

\* start_experiment of routes/experiments.py, over the service class of
\* services/automl.py or one handing the call to ExperimentService
CrudStartExperiment ==
    \E exp \in [id : {"e1", "e2"}, task_type : {"classification", None}],
       submitOk \in BOOLEAN, delegating \in BOOLEAN :
        LET started == IF delegating
                       THEN ExperimentServiceStartExperiment(exp, submitOk)
                       ELSE StartExperiment(exp, submitOk)
            expRecord == [id |-> exp.id, user_id |-> None, dataset_id |-> None]
            runRecord == [id |-> started.run.id, user_id |-> None,
                          experiment_id |-> exp.id]
        IN  /\ azSubmitted < MaxSubmitted
            /\ req' = [op |-> "start_experiment", body |-> exp]
            /\ calls' = started.calls
            /\ azSubmitted' = IF submitOk THEN azSubmitted + 1 ELSE azSubmitted
            /\ IF ~started.ok
               THEN /\ result' = HttpError(500, started.error)
                    /\ UNCHANGED <<dbExperiments, dbRuns>>
               ELSE IF "tenant_id" \notin ExperimentSchemaFields
               THEN \* exp.tenant_id
                    /\ result' = HttpError(500, "AttributeError")
                    /\ UNCHANGED <<dbExperiments, dbRuns>>
               ELSE IF "tenant_id" \notin ExperimentColumns \cap RunColumns
               THEN \* ExperimentModel(tenant_id=...), RunModel(tenant_id=...)
                    /\ result' = HttpError(500, "TypeError")
                    /\ UNCHANGED <<dbExperiments, dbRuns>>
               ELSE IF \E e \in dbExperiments : e.id = exp.id
               THEN /\ result' = HttpError(500, "IntegrityError")
                    /\ UNCHANGED <<dbExperiments, dbRuns>>
               ELSE /\ dbExperiments' = dbExperiments \cup {expRecord}
                    /\ dbRuns' = dbRuns \cup {runRecord}
                    /\ result' = [status_code |-> 200, body |-> started.run]
            /\ UNCHANGED dbModels
            /\ CrudUnchanged

\* list_experiments: experiment_model_to_schema reads model.tenant_id of
\* every row
CrudListExperiments ==
    /\ req' = [op |-> "list_experiments"]
    /\ result' = IF dbExperiments # {} /\ "tenant_id" \notin ExperimentColumns
                 THEN HttpError(500, "AttributeError")
                 ELSE [status_code |-> 200, body |-> {e.id : e \in dbExperiments}]
    /\ UNCHANGED <<calls, azSubmitted, dbModels, dbExperiments, dbRuns>>
    /\ CrudUnchanged

\* update_dataset: every field of the body is written to the row, whoever
\* the caller is; the bodies here repeat the stored row but for private
CrudUpdateDataset ==
    \E user \in Users, id \in {"d1", "d2"}, private \in BOOLEAN :
        LET rows == {d \in dbDatasets : d.id = id}
            row == [(CHOOSE d \in rows : TRUE) EXCEPT !.private = private]
        IN  /\ req' = [op |-> "update_dataset", user |-> user, id |-> id,
                       private |-> private]
            /\ IF rows = {}
               THEN result' = HttpError(404, "Dataset not found")
                    /\ UNCHANGED dbDatasets
               ELSE /\ dbDatasets' = (dbDatasets \ rows) \cup {row}
                    /\ result' = [status_code |-> 200, body |-> {row}]
            /\ UNCHANGED <<azJobs, azModels, azEndpoints, azSubmitted, calls, nextId,
                           dbExperiments, dbRuns, dbModels, dbEndpoints,
                           dbDeployments, dbUsers, dbRoles>>

\* list_datasets: every row, or the rows of the uploader named in the query
CrudListDatasets ==
    \E user \in Users, uploadedBy \in {None} \cup Users :
        /\ req' = [op |-> "list_datasets", user |-> user, uploaded_by |-> uploadedBy]
        /\ result' = [status_code |-> 200,
                      body |-> IF uploadedBy # None
                               THEN {d \in dbDatasets : d.uploaded_by = uploadedBy}
                               ELSE dbDatasets]
        /\ UNCHANGED <<calls, azSubmitted, dbModels, dbExperiments, dbRuns>>
        /\ CrudUnchanged

\* get_dataset: the row with the id of the path.  GET /datasets/search is
\* answered by this handler too, as it is registered before search_datasets
\* and its path parameter takes any string; no row has that id, and the
\* lookup ends in 404 or, where the id column is a UNIQUEIDENTIFIER, in 500
CrudGetDataset ==
    \E user \in Users, id \in {"d1", "search"} :
        LET rows == {d \in dbDatasets : d.id = id}
        IN  /\ req' = [op |-> "get_dataset", user |-> user, id |-> id]
            /\ IF rows # {}
               THEN result' = [status_code |-> 200, body |-> rows]
               ELSE \E status \in IF id = "search" THEN {404, 500} ELSE {404} :
                        result' = HttpError(status, "Dataset not found")
            /\ UNCHANGED <<calls, azSubmitted, dbModels, dbExperiments, dbRuns>>
            /\ CrudUnchanged

\* the tables are empty but for the dataset d1 that u1 uploaded: create_dataset
\* leaves private to its default
CrudInit ==
    /\ azJobs = [e \in ParentJobNames |-> <<>>]
    /\ InitAzure
    /\ InitOperation
    /\ dbExperiments = {}
    /\ dbRuns = {}
    /\ dbModels = {}
    /\ dbEndpoints = {}
    /\ dbDeployments = {}
    /\ dbUsers = {}
    /\ dbRoles = {}
    /\ dbDatasets = {[id |-> "d1", uploaded_by |-> "u1", name |-> "iris",
                      private |-> FALSE]}

CrudNext ==
    \/ CrudCreateModel
    \/ CrudGetModel
    \/ CrudUpdateModel
    \/ CrudDeleteModel
    \/ CrudStartExperiment
    \/ CrudListExperiments
    \/ CrudUpdateDataset
    \/ CrudListDatasets
    \/ CrudGetDataset

CrudSpec == CrudInit /\ [][CrudNext]_vars

----------------------------------------------------------------------------
(* The endpoint-metrics task.  lifespan registers collect_endpoint_metrics  *)
(* as an interval job of 5 minutes; the job itself loops for ever, listing  *)
(* the endpoints and sleeping 60 seconds.  Time is counted in minutes: req  *)
(* holds the clock (now), whether an instance of the job is running, when   *)
(* its sleep ends (wake) and when the scheduler fires next (next_run);      *)
(* calls logs each list_endpoints with the minute it was made at.           *)

\* scheduler.add_job(collect_endpoint_metrics, "interval", minutes=5) and
\* scheduler.start(): the first run is due one interval after the start
TaskInit ==
    /\ azJobs = [e \in ParentJobNames |-> <<>>]
    /\ InitAzure
    /\ InitDb
    /\ calls = <<>>
    /\ result = NoResult
    /\ nextId = 0
    /\ req = [op |-> "collect_endpoint_metrics", now |-> 0, running |-> FALSE,
              wake |-> 0, next_run |-> 5]

\* a minute passes; nothing that is due is passed over
TaskTick ==
    /\ req.op = "collect_endpoint_metrics"
    /\ req.now < MaxMinutes
    /\ req.next_run > req.now
    /\ req.running => req.wake > req.now
    /\ req' = [req EXCEPT !.now = @ + 1]
    /\ UNCHANGED <<azJobs, azModels, azEndpoints, azSubmitted, calls, result,
                   dbVars, nextId>>

\* the interval trigger fires: the job is started unless its instance is
\* still running (max_instances is left at 1), and is due again in 5 minutes
SchedulerFire ==
    /\ req.op = "collect_endpoint_metrics"
    /\ req.next_run = req.now
    /\ req' = [req EXCEPT !.next_run = @ + 5,
                          !.running = TRUE,
                          !.wake = IF req.running THEN @ ELSE req.now]
    /\ UNCHANGED <<azJobs, azModels, azEndpoints, azSubmitted, calls, result,
                   dbVars, nextId>>

\* one turn of the loop of collect_endpoint_metrics: service.list_endpoints()
\* and asyncio.sleep(60); a raise ends the instance
CollectEndpointMetrics ==
    /\ req.op = "collect_endpoint_metrics"
    /\ req.running
    /\ req.wake = req.now
    /\ \E ok \in BOOLEAN :
          /\ calls' = Append(calls, Call("online_endpoints.list", <<req.now>>, ok))
          /\ req' = IF ok THEN [req EXCEPT !.wake = @ + 1]
                    ELSE [req EXCEPT !.running = FALSE]
    /\ UNCHANGED <<azJobs, azModels, azEndpoints, azSubmitted, result,
                   dbVars, nextId>>

TaskNext ==
    \/ TaskTick
    \/ SchedulerFire
    \/ CollectEndpointMetrics

TaskSpec == TaskInit /\ [][TaskNext]_vars

----------------------------------------------------------------------------
(* POST /deploy/experiment/{experiment_id} in two sessions on one database *)

\* default_uuid: a key no other session and no earlier row has
DefaultUuid(p, table) == <<p, Cardinality(table) + 1>>

\* nothing is written yet: no row of any table, the Azure workspace of
\* RouteInit, and both sessions waiting for a request
InterleavedInit ==
    /\ azJobs = [e \in ParentJobNames |->
                    NameJobs(<< << <<"score", "0.9">> >> >>)]
    /\ InitAzure
    /\ calls = <<>>
    /\ nextId = 0
    /\ result = NoResult
    /\ req = [op |-> "deploy_experiment_twice",
              session |-> [p \in 1..2 |-> [pc |-> "idle"]]]
    /\ dbExperiments = {[id |-> "e1", user_id |-> "u1", dataset_id |-> None]}
    /\ dbRuns = {}
    /\ dbModels = {}
    /\ dbEndpoints = {}
    /\ dbDeployments = {}
    /\ dbUsers = {}
    /\ dbRoles = {}
    /\ dbDatasets = {}

\* the request of u1 for e1 and ep1 arrives in session p: the ownership
\* check and service.deploy_best_model_from_experiment(...)
SessionDeploy ==
    \E p \in 1..2, body \in RequestBodies, o \in RouteOutcomes :
        /\ req.session[p].pc \in {"idle", "done"}
        /\ RegisteredVersions < MaxVersions
        /\ body.deployment_name = NoDeploymentName => nextId < MaxIds
        /\ OwnedRows(dbExperiments, "e1", "u1") # {}
        /\ \E r \in {FacadeDeployBestModelFromExperiment(
                        Az, "e1", body.endpoint_name, body.deployment_name,
                        body.traffic_percentage, GeneratedName(nextId + 1), o)} :
              /\ calls' = r.calls
              /\ azModels' = r.az.models
              /\ azEndpoints' = r.az.endpoints
              /\ nextId' = IF body.deployment_name = NoDeploymentName
                           THEN nextId + 1 ELSE nextId
              /\ IF ~r.ok
                 THEN /\ result' = HttpError(500, "deploy failed")
                      /\ req' = [req EXCEPT !.session[p] = [pc |-> "done"]]
                 ELSE /\ result' = result
                      /\ req' = [req EXCEPT !.session[p] =
                                    [pc |-> "deployed", body |-> body,
                                     dr |-> r.value]]
        /\ UNCHANGED <<azJobs, azSubmitted, dbVars>>

\* create_or_update_model_record and db.flush() in session p: the query sees
\* the committed rows, and the row it adds or changes is pending
SessionModelRecord ==
    \E p \in 1..2 :
        LET s == req.session[p]
        IN  /\ s.pc = "deployed"
            /\ LET m == CreateOrUpdateModelRecord(dbModels, "u1", s.dr, "e1", None)
                   kept == {x \in dbModels : x.id = m.id}
                   row == CHOOSE x \in m.models : x \notin dbModels \/ x \in kept
               IN  req' = [req EXCEPT !.session[p] =
                              [pc |-> "model", body |-> s.body, dr |-> s.dr,
                               model |-> IF kept = {}
                                         THEN [row EXCEPT !.id = DefaultUuid(p, dbModels)]
                                         ELSE row]]
            /\ UNCHANGED <<azJobs, azSubmitted, azModels, azEndpoints, calls,
                           result, nextId, dbVars>>

\* the query for the endpoint row, its add or update, and db.flush()
SessionEndpointRecord ==
    \E p \in 1..2 :
        LET s == req.session[p]
        IN  /\ s.pc = "model"
            /\ LET x == CreateOrUpdateEndpointRecord(dbEndpoints, "u1", s.dr, "e1",
                                                     None, s.model.id)
                   kept == {y \in dbEndpoints : y.id = x.id}
                   row == CHOOSE y \in x.endpoints : y \notin dbEndpoints \/ y \in kept
               IN  req' = [req EXCEPT !.session[p] =
                              [pc |-> "endpoint", body |-> s.body, dr |-> s.dr,
                               model |-> s.model,
                               endpoint |-> IF kept = {}
                                            THEN [row EXCEPT !.id = DefaultUuid(p, dbEndpoints)]
                                            ELSE row]]
            /\ UNCHANGED <<azJobs, azSubmitted, azModels, azEndpoints, calls,
                           result, nextId, dbVars>>

\* the deployment row and db.commit(): the pending rows of session p reach
\* the tables, or the unique index ix_deployment_name_endpoint rejects the
\* deployment row and the session is rolled back
SessionCommit ==
    \E p \in 1..2 :
        LET s == req.session[p]
        IN  /\ s.pc = "endpoint"
            /\ LET row == [id |-> DefaultUuid(p, dbDeployments), user_id |-> "u1",
                           endpoint_id |-> s.endpoint.id, model_id |-> s.model.id,
                           deployment_name |-> s.dr.deployment_name,
                           traffic_percentage |-> s.body.traffic_percentage,
                           deployment_status |-> s.dr.deployment_status]
                   duplicate == \E d \in dbDeployments :
                                   /\ d.endpoint_id = row.endpoint_id
                                   /\ d.deployment_name = row.deployment_name
               IN  /\ result' = DeploymentResponse(s.dr, ~duplicate)
                   /\ IF duplicate
                      THEN UNCHANGED <<dbModels, dbEndpoints, dbDeployments>>
                      ELSE /\ dbModels' = {m \in dbModels : m.id # s.model.id}
                                              \cup {s.model}
                           /\ dbEndpoints' = {x \in dbEndpoints : x.id # s.endpoint.id}
                                                 \cup {s.endpoint}
                           /\ dbDeployments' = dbDeployments \cup {row}
            /\ req' = [req EXCEPT !.session[p] = [pc |-> "done"]]
            /\ UNCHANGED <<azJobs, azSubmitted, azModels, azEndpoints, calls,
                           nextId, dbExperiments, dbRuns, dbUsers, dbRoles,
                           dbDatasets>>

InterleavedNext ==
    \/ SessionDeploy
    \/ SessionModelRecord
    \/ SessionEndpointRecord
    \/ SessionCommit

InterleavedSpec == InterleavedInit /\ [][InterleavedNext]_vars

----------------------------------------------------------------------------
(* tasks/background.py: monitor_run                                        *)

\* no task yet; the runs table holds r1 and r2, and no row has the id r9
MonitorInit ==
    /\ azJobs = [e \in ParentJobNames |-> <<>>]
    /\ InitAzure
    /\ calls = <<>>
    /\ nextId = 0
    /\ req = [op |-> "monitor_run", run_id |-> None, pc |-> "none",
              session |-> "none", parity |-> 0, slept |-> FALSE]
    /\ result = [status |-> None, raised |-> "none"]
    /\ dbRuns = {[id |-> "r1", metrics |-> <<>>, completed_at |-> None],
                 [id |-> "r2", metrics |-> <<>>, completed_at |-> None]}
    /\ dbExperiments = {}
    /\ dbModels = {}
    /\ dbEndpoints = {}
    /\ dbDeployments = {}
    /\ dbUsers = {}
    /\ dbRoles = {}
    /\ dbDatasets = {}

\* monitor_run(run_id) is scheduled: the service and the session are made
\* ahead of the try block
MonitorStart ==
    \E runId \in {"r1", "r2", "r9"} :
        /\ req.pc \in {"none", "exited"}
        /\ req' = [op |-> "monitor_run", run_id |-> runId, pc |-> "scheduled",
                   session |-> "open", parity |-> 0, slept |-> FALSE]
        /\ result' = [status |-> None, raised |-> "none"]
        /\ calls' = <<>>
        /\ UNCHANGED <<azJobs, azSubmitted, azModels, azEndpoints, nextId, dbVars>>

\* a loop that tests the status ahead of the row: a terminal status ends
\* the task with nothing written
MonitorPollBreakingFirst ==
    /\ req.op = "monitor_run"
    /\ req.pc \in {"scheduled", "sleeping"}
    /\ \E raised \in BOOLEAN, commitOk \in BOOLEAN,
          metrics \in {[kind |-> "other", status |-> None]}
                      \cup {[kind |-> "dict", status |-> s] :
                               s \in {None, "Running", "Completed", "Failed", "Canceled"}} :
          LET status == IF metrics.kind = "dict" THEN metrics.status ELSE None
              terminal == status \in {"Completed", "Failed", "Canceled"}
              record == {r \in dbRuns : r.id = req.run_id}
              exit == [req EXCEPT !.pc = "exited", !.session = "closed",
                                  !.parity = 1 - @]
              sleep == [req EXCEPT !.pc = "sleeping", !.slept = TRUE,
                                   !.parity = 1 - @]
              Stored(completedAt) ==
                  {IF r \in record
                   THEN [r EXCEPT !.metrics = <<metrics>>,
                                  !.completed_at = IF completedAt THEN "utcnow" ELSE @]
                   ELSE r : r \in dbRuns}
          IN  /\ calls' = <<Call("jobs.get", <<req.run_id>>, ~raised)>>
              /\ IF raised
                 THEN /\ req' = exit
                      /\ result' = [status |-> None, raised |-> "get_run_metrics"]
                      /\ UNCHANGED dbRuns
                 ELSE IF record # {} /\ ~commitOk
                 THEN /\ req' = exit
                      /\ result' = [status |-> status, raised |-> "commit"]
                      /\ UNCHANGED dbRuns
                 ELSE /\ req' = IF terminal THEN exit ELSE sleep
                      /\ result' = [status |-> status, raised |-> "none"]
                      /\ dbRuns' = IF terminal THEN dbRuns ELSE Stored(FALSE)
    /\ UNCHANGED <<azJobs, azSubmitted, azModels, azEndpoints, nextId,
                   dbExperiments, dbModels, dbEndpoints, dbDeployments,
                   dbUsers, dbRoles, dbDatasets>>

\* one turn of the loop, from the resumption of the task to its next await
\* or its exit: get_run_metrics, db.get, the assignments, db.commit(), and
\* asyncio.sleep(30) or break; db.close() runs on the way out of the try,
\* after break or a raise.  parity is the count of turns modulo 2
MonitorPoll ==
    /\ req.op = "monitor_run"
    /\ req.pc \in {"scheduled", "sleeping"}
    /\ \E raised \in BOOLEAN, commitOk \in BOOLEAN,
          metrics \in {[kind |-> "other", status |-> None]}
                      \cup {[kind |-> "dict", status |-> s] :
                               s \in {None, "Running", "Completed", "Failed", "Canceled"}} :
          LET status == IF metrics.kind = "dict" THEN metrics.status ELSE None
              terminal == status \in {"Completed", "Failed", "Canceled"}
              record == {r \in dbRuns : r.id = req.run_id}
              exit == [req EXCEPT !.pc = "exited", !.session = "closed",
                                  !.parity = 1 - @]
              sleep == [req EXCEPT !.pc = "sleeping", !.slept = TRUE,
                                   !.parity = 1 - @]
              Stored(completedAt) ==
                  {IF r \in record
                   THEN [r EXCEPT !.metrics = <<metrics>>,
                                  !.completed_at = IF completedAt THEN "utcnow" ELSE @]
                   ELSE r : r \in dbRuns}
          IN  /\ calls' = <<Call("jobs.get", <<req.run_id>>, ~raised)>>
              /\ IF raised
                 THEN /\ req' = exit
                      /\ result' = [status |-> None, raised |-> "get_run_metrics"]
                      /\ UNCHANGED dbRuns
                 ELSE IF record # {} /\ ~commitOk
                 THEN /\ req' = exit
                      /\ result' = [status |-> status, raised |-> "commit"]
                      /\ UNCHANGED dbRuns
                 ELSE /\ req' = IF terminal THEN exit ELSE sleep
                      /\ result' = [status |-> status, raised |-> "none"]
                      /\ dbRuns' = Stored(terminal)
    /\ UNCHANGED <<azJobs, azSubmitted, azModels, azEndpoints, nextId,
                   dbExperiments, dbModels, dbEndpoints, dbDeployments,
                   dbUsers, dbRoles, dbDatasets>>

MonitorNext ==
    \/ MonitorStart
    \/ MonitorPoll

\* the event loop resumes the task when asyncio.sleep(30) is over, and runs
\* a task that was scheduled
MonitorFairSpec == MonitorInit /\ [][MonitorNext]_vars /\ WF_vars(MonitorPoll)

----------------------------------------------------------------------------
(* Reading the call log                                                    *)

CallsTo(api) == {i \in DOMAIN calls : calls[i].api = api}

\* the names of the jobs handed to register_model_from_job by the last operation
HandedToRegister == {calls[i].arg[2] : i \in CallsTo("models.create_or_update")}

\* the score _extract_job_performance_info gives the child job named j
ScoreOfJob(e, j) == ExtractJobPerformanceInfo(azJobs[e][j]).score

IsNumber(x) == x # NoScore /\ x # NaN

----------------------------------------------------------------------------
(* C1: whenever some child job has a recognised (numeric) score, the job   *)
(* handed to register_model_from_job has a numeric score that is greater   *)
(* than or equal to the score of every other scored child job.             *)
C1_BestJobHasHighestScore ==
    req.op = "deploy_best" =>
        LET e == req.experiment_name
            scored == {k \in DOMAIN azJobs[e] : IsNumber(ScoreOfJob(e, k))}
        IN  \A j \in HandedToRegister :
                scored # {} =>
                    /\ IsNumber(ScoreOfJob(e, j))
                    /\ \A k \in scored : ScoreOfJob(e, j) >= ScoreOfJob(e, k)

----------------------------------------------------------------------------
(* C5: register_model_from_job stops at the first candidate path whose     *)
(* registration call succeeds: no create_or_update follows a successful    *)
(* one, the reference returned is name:version of that success, and the    *)
(* operation raises only when every candidate has failed.                  *)
RegistrationCalls == CallsTo("models.create_or_update")

C5_FirstSuccessWins ==
    /\ \A i, k \in RegistrationCalls : i < k => ~calls[i].ok
    /\ req.op = "register_model" =>
          /\ result.status = "error" <=>
                /\ Cardinality(RegistrationCalls) = 2
                /\ \A i \in RegistrationCalls : ~calls[i].ok
          /\ result.status = "ok" =>
                /\ \E i \in RegistrationCalls : calls[i].ok
                /\ result.value.name = ModelNameOf(req.experiment_name)
                /\ result.value.version = azModels[result.value.name]

\* the first candidate failed, the second succeeded, the reference was returned
C5_Witness ==
    /\ req.op = "register_model"
    /\ result.status = "ok"
    /\ Cardinality(RegistrationCalls) = 2

----------------------------------------------------------------------------
(* C6: create_or_get_endpoint_with_metadata issues begin_create_or_update  *)
(* only when no endpoint of that name exists, whatever the lookup does, so *)
(* an endpoint that exists keeps its description, tags and auth mode.      *)
C6_CreateOnlyIfAbsent ==
    [][req'.op \in {"create_or_get_endpoint", "deploy_best"} =>
          \A n \in EndpointNames :
              azEndpoints[n].exists =>
                  /\ \A i \in DOMAIN calls' :
                        (/\ calls'[i].api = "online_endpoints.begin_create_or_update"
                         /\ calls'[i].arg[1] = "create")
                        => calls'[i].arg[2] # n
                  /\ azEndpoints'[n].description = azEndpoints[n].description
                  /\ azEndpoints'[n].tags = azEndpoints[n].tags
                  /\ azEndpoints'[n].auth_mode = azEndpoints[n].auth_mode]_vars

----------------------------------------------------------------------------
(* C2: in both deploy routes, when the deployment service returned and the *)
(* database rows could not be written, the response is a 200               *)
(* DeploymentResponse with the endpoint URL, the deployment status and the *)
(* warning message, and Azure keeps the model version, the endpoint, the   *)
(* deployment and the traffic the service created: no call deletes them.   *)
DeployRoutes == {"route_deploy_experiment", "route_deploy_run"}

\* the service returns only after its closing online_endpoints.get
ServiceReturned(log) ==
    /\ log # <<>>
    /\ log[Len(log)].api = "online_endpoints.get"
    /\ log[Len(log)].ok

\* the deployments the log created, as <<endpoint, deployment>>
DeploymentsCreated(log) ==
    {log[i].arg : i \in {k \in DOMAIN log :
        /\ log[k].api = "online_deployments.begin_create_or_update"
        /\ log[k].ok}}

C2_DbFailureKeepsAzureDeployment ==
    [][(/\ req'.op \in DeployRoutes
        /\ ServiceReturned(calls')
        /\ dbDeployments' = dbDeployments)
       =>
       (/\ result'.status_code = 200
        /\ result'.message = "warning"
        /\ result'.endpoint_url = <<"scoring_uri", req'.body.endpoint_name>>
        /\ result'.deployment_status = "Succeeded"
        /\ dbModels' = dbModels /\ dbEndpoints' = dbEndpoints
        /\ \A i \in DOMAIN calls' :
              calls'[i].api \in {"models.create_or_update",
                                 "online_endpoints.begin_create_or_update",
                                 "online_deployments.begin_create_or_update",
                                 "jobs.get", "jobs.list", "online_endpoints.get"}
        /\ RegisteredVersions' = RegisteredVersions + 1
        /\ \A d \in DeploymentsCreated(calls') :
              /\ azEndpoints'[d[1]].exists
              /\ d[2] \in azEndpoints'[d[1]].deployments
              /\ azEndpoints'[d[1]].traffic = {<<d[2], req'.body.traffic_percentage>>}
        /\ DeploymentsCreated(calls') # {})]_vars

\* a deployment went through on Azure and its rows were not written
C2_Witness ==
    /\ req.op \in DeployRoutes
    /\ ServiceReturned(calls)
    /\ result.status_code = 200
    /\ result.message = "warning"
    /\ dbDeployments = {}
    /\ azEndpoints[req.body.endpoint_name].deployments # {}

----------------------------------------------------------------------------
(* C10: a deploy route reaches the deployment service only when the        *)
(* Experiment (resp. Run) row with the requested id is owned by the        *)
(* caller; otherwise no Azure call is made and no Model, Endpoint or       *)
(* Deployment row is written.                                              *)
C10_DeployOnlyOwnedRecord ==
    [][(/\ req'.op \in DeployRoutes
        /\ ~(/\ req'.op = "route_deploy_experiment"
             /\ \E x \in dbExperiments : x.id = req'.id /\ x.user_id = req'.user)
        /\ ~(/\ req'.op = "route_deploy_run"
             /\ \E x \in dbRuns : x.id = req'.id /\ x.user_id = req'.user))
       =>
       (/\ calls' = <<>>
        /\ azModels' = azModels /\ azEndpoints' = azEndpoints
        /\ dbModels' = dbModels /\ dbEndpoints' = dbEndpoints
        /\ dbDeployments' = dbDeployments
        /\ result'.status_code # 200)]_vars

\* u2 asked to deploy the experiment of u1 after u1 had deployed it
C10_Witness ==
    /\ req.op = "route_deploy_experiment"
    /\ req.user = "u2"
    /\ \E x \in dbExperiments : x.id = req.id /\ x.user_id # req.user
    /\ calls = <<>>
    /\ dbDeployments # {}

----------------------------------------------------------------------------
(* C4: POST /deploy/{endpoint_name}/traffic with a traffic map whose       *)
(* percentages do not sum to 100 is answered with status 400.              *)
C4_TrafficNot100Gives400 ==
    (req.op = "route_update_traffic" /\ SumValues(req.traffic_allocation) # 100)
        => result.status_code = 400

----------------------------------------------------------------------------
(* C3: on the routes behind require_maintainer a caller whose role is USER
   is rejected with 403 and a caller whose role is MAINTAINER or ADMIN
   passes the gate; has_role(required) holds exactly when the caller's
   level in the order USER < MAINTAINER < ADMIN is at least the required
   level, and a caller with no role never passes. *)

\* the role name the users and roles tables give the bearer of a token
RoleNameOf(token, users, roles) ==
    LET roleIds == {u.role_id : u \in {x \in users : x.id = token.sub}} \ {None}
        names == {r.name : r \in {x \in roles : x.id \in roleIds}}
    IN  IF token.kind # "valid" \/ names = {} THEN None
        ELSE CHOOSE n \in names : TRUE

CallerRole == RoleNameOf(req.token, dbUsers, dbRoles)

C3_MaintainerGateFollowsRoleOrder ==
    LET \* the responses of the gate itself
        GateResponses == {HttpError(403, "Insufficient privileges"),
                          HttpError(403, "Authentication failed"),
                          HttpError(500, "ValueError")}
        \* the position of a role in USER < MAINTAINER < ADMIN
        LevelInOrder(role) ==
            CHOOSE i \in 1..3 : <<"USER", "MAINTAINER", "ADMIN">>[i] = role
    IN
    /\ req.op \in {"delete_dataset", "delete_experiment", "delete_run", "delete_endpoint"} =>
          /\ (req.token.kind = "valid" /\ CallerRole = "USER")
                => result.status_code = 403
          /\ (req.token.kind = "valid" /\ CallerRole \in {"MAINTAINER", "ADMIN"})
                => result \notin GateResponses
          /\ CallerRole \in {None, ""} => result \in GateResponses
    /\ req.op = "has_role" =>
          /\ req.role \in UserRole =>
                (result.value = "True"
                    <=> LevelInOrder(req.role) >= LevelInOrder(req.required))
          /\ req.role \in {None, ""} => result.value = "False"

\* a USER asked for the delete of a dataset that exists and was turned away
\* with 403, after a maintainer's delete of the experiment had gone through
C3_Witness ==
    /\ req.op = "delete_dataset"
    /\ req.token.kind = "valid"
    /\ CallerRole = "USER"
    /\ result.status_code = 403
    /\ \E d \in dbDatasets : d.id = req.id
    /\ dbExperiments = {}

----------------------------------------------------------------------------
(* C9: POST /users, POST /roles, DELETE /users/{user_id} and
   DELETE /roles/{role_id} execute only for a caller whose role is ADMIN:
   a caller with role USER or MAINTAINER, or with no role, is rejected with
   403 and no user or role row is created or deleted. *)

C9_OnlyAdminChangesUsersAndRoles ==
    [][req'.op \in {"create_user", "create_role", "delete_user", "delete_role"} =>
          LET role == RoleNameOf(req'.token, dbUsers, dbRoles)
          IN  /\ role \in {"USER", "MAINTAINER", None}
                    => /\ result'.status_code = 403
                       /\ dbUsers' = dbUsers
                       /\ dbRoles' = dbRoles
              /\ (dbUsers' # dbUsers \/ dbRoles' # dbRoles) => role = "ADMIN"]_vars

\* a MAINTAINER asked for a new user and got 403, in a database in which an
\* ADMIN had created a role before
C9_Witness ==
    /\ req.op = "create_user"
    /\ CallerRole = "MAINTAINER"
    /\ result.status_code = 403
    /\ \E r \in dbRoles : r.id = "rx"
    /\ ~\E u \in dbUsers : u.id = req.id

----------------------------------------------------------------------------
(* C7: after POST /models with body m succeeds, GET /models/{m.id} returns a
   record in which every field supplied in m has the value it was given, as
   long as no PUT or DELETE on that id happened in between.  Stated for the
   GET that follows the POST at once. *)

C7_ModelRoundTrip ==
    [][(/\ req.op = "create_model"
        /\ result.status_code = 200
        /\ req'.op = "get_model"
        /\ req'.id = req.body.id)
          => /\ result'.status_code = 200
             /\ \A f \in DOMAIN req.body : result'.body[f] = req.body[f]]_vars

----------------------------------------------------------------------------
(* C8: POST /experiments with a valid experiment body starts the Azure job
   and then records one Experiment row and one Run row linked to it, so that
   a following GET /experiments lists exactly that experiment. *)

C8_StartExperimentRecordsRows ==
    (/\ req.op = "start_experiment"
     /\ \E i \in 1..Len(calls) : calls[i].api = "jobs.create_or_update" /\ calls[i].ok)
        => \E e \in dbExperiments :
              /\ e.id = req.body.id
              /\ \E r \in dbRuns : r.experiment_id = e.id

----------------------------------------------------------------------------
(* C11: when several child jobs share the highest recognised score, the    *)
(* one that comes first in the list jobs.list returned is the job handed   *)
(* to registration and deployment (first-seen wins).                       *)
C11_TieFirstSeenWins ==
    req.op = "deploy_best" =>
        LET e == req.experiment_name
            scored == {k \in DOMAIN azJobs[e] : IsNumber(ScoreOfJob(e, k))}
            top == {k \in scored : \A m \in scored : ScoreOfJob(e, k) >= ScoreOfJob(e, m)}
        IN  Cardinality(top) >= 2 =>
                \A j \in HandedToRegister : j \in top /\ \A k \in top : j <= k

----------------------------------------------------------------------------
(* C12 as stated: a child job takes part in the ranking whenever its       *)
(* properties contain a key matching one of the metric-name substrings     *)
(* (accuracy, precision, recall, f1, auc) with a value that coerces to     *)
(* float, that value being its score; only jobs with no such key are left  *)
(* out of the ranking.                                                     *)
C12_MetricKeyGivesScore ==
    req.op = "deploy_best" =>
        LET jobs == azJobs[req.experiment_name]
            ranked == GetChildJobsWithScores(jobs)
        IN  \A k \in DOMAIN jobs :
                LET values == {PyFloat(jobs[k].properties[i][2]) :
                                  i \in {n \in DOMAIN jobs[k].properties :
                                            ContainsMetricName(
                                                Lower(jobs[k].properties[n][1]))}}
                               \ {ValueError}
                IN  /\ values # {} =>
                          \E i \in DOMAIN ranked :
                              ranked[i].name = k /\ ranked[i].score \in values
                    /\ (\A i \in DOMAIN ranked : ranked[i].name # k) => values = {}

(* C12 as the code has it: a child job takes part in the ranking exactly   *)
(* when its properties contain a key that is, in lower case, score,        *)
(* accuracy, primary_metric_score, auc or roc_auc with a value that        *)
(* coerces to float, and its score is the value of such a key; a key that  *)
(* only matches precision, recall or f1 is kept as a metric and gives no   *)
(* score.                                                                  *)
C12_ScoreKeyGivesScore ==
    req.op = "deploy_best" =>
        LET jobs == azJobs[req.experiment_name]
            ranked == GetChildJobsWithScores(jobs)
        IN  \A k \in DOMAIN jobs :
                LET values == {PyFloat(jobs[k].properties[i][2]) :
                                  i \in {n \in DOMAIN jobs[k].properties :
                                            Lower(jobs[k].properties[n][1])
                                               \in {"score", "accuracy",
                                                    "primary_metric_score",
                                                    "auc", "roc_auc"}}}
                               \ {ValueError}
                IN  /\ values # {} <=> \E i \in DOMAIN ranked : ranked[i].name = k
                    /\ \A i \in DOMAIN ranked :
                          ranked[i].name = k => ranked[i].score \in values

\* a job whose only metric key is precision was left out, and the job after
\* it, scored through AUC, was the one registered
C12_Witness ==
    /\ req.op = "deploy_best"
    /\ result.status = "ok"
    /\ Len(azJobs["e1"]) = 2
    /\ azJobs["e1"][1].properties = << <<"precision", "0.9">> >>
    /\ azJobs["e1"][2].properties = << <<"AUC", "0.8">> >>
    /\ HandedToRegister = {2}

----------------------------------------------------------------------------
(* C13: register_model_from_job tries its candidate paths in the order     *)
(* MLflow-model subpath, whole outputs directory, local filesystem         *)
(* fallback: whenever both datastore registrations have failed, the local  *)
(* fallback is attempted before the operation reports failure.             *)
C13_LocalFallbackAfterDatastoreFailures ==
    req.op = "register_model" =>
        /\ \A i \in RegistrationCalls :
              /\ calls[i].arg[1] = "mlflow-model" => i = 1
              /\ calls[i].arg[1] = "outputs" => i = 2
        /\ (\E i, k \in RegistrationCalls :
               /\ calls[i].arg[1] = "mlflow-model" /\ ~calls[i].ok
               /\ calls[k].arg[1] = "outputs" /\ ~calls[k].ok)
              => \E m \in DOMAIN calls : m > 2 /\ calls[m].arg[1] = "local"

----------------------------------------------------------------------------
(* C14: the sum-to-100 check is applied on no other traffic-setting path:
   PUT /endpoints/{endpoint_id}/traffic, and the traffic step of
   deploy_registered_model and of create_deployment, forward to Azure the
   traffic map they were given whatever its values sum to, and when Azure
   accepts the map (and the commit of the row returns) PUT
   /endpoints/{endpoint_id}/traffic stores the returned map in the endpoint
   row and reports success. *)
C14_NoSumCheckOnOtherTrafficPaths ==
    LET gets == {i \in DOMAIN calls : calls[i].api = "online_endpoints.get"}
        puts == {i \in DOMAIN calls :
                    /\ calls[i].api = "online_endpoints.begin_create_or_update"
                    /\ calls[i].arg[1] = "traffic"}
        forwarded(map) ==
            /\ gets # {}
            /\ (\E i \in gets : calls[i].ok)
                  => \E k \in puts : calls[k].arg[3] = map
        committed == \E i \in DOMAIN calls : calls[i].api = "db.commit" /\ calls[i].ok
    IN  /\ (/\ req.op = "put_endpoint_traffic"
            /\ req.well_formed
            /\ \E x \in dbEndpoints : x.id = req.id /\ x.azure_endpoint_name # None)
           => LET map == AsDeploymentTraffic(req.traffic_allocation)
              IN  /\ forwarded(map)
                  /\ ((\E k \in puts : calls[k].ok) /\ committed)
                        => /\ result = [status_code |-> 200,
                                        message |-> "Traffic allocation updated successfully",
                                        traffic |-> map]
                           /\ \A x \in dbEndpoints : x.id = req.id => x.traffic = <<map>>
        /\ (/\ req.op \in {"deploy_registered_model", "create_deployment"}
            /\ req.traffic_percentage > 0
            /\ \E i \in DOMAIN calls :
                  /\ calls[i].api = "online_deployments.begin_create_or_update"
                  /\ calls[i].ok)
           => forwarded({<<req.deployment_name, req.traffic_percentage>>})

\* half of the traffic and nothing else was put on ep1 through the PUT route,
\* and the row of the endpoint holds that map
C14_Witness ==
    /\ req.op = "put_endpoint_traffic"
    /\ req.traffic_allocation = {<<"blue", 50>>}
    /\ result.status_code = 200
    /\ azEndpoints["ep1"].traffic = {<< <<"blue", 0>>, 50 >>}
    /\ \E x \in dbEndpoints : x.id = req.id /\ x.traffic = << {<< <<"blue", 0>>, 50 >>} >>

----------------------------------------------------------------------------
(* C15: extract_parent_job_metadata never fails: when fetching the parent
   job raises, deploy_best_model_from_experiment receives the partial record
   (experiment_name, task_type 'unknown', error) and goes on to the ranking
   and the registration steps with it. *)
C15_ParentFailureGivesPartialRecord ==
    (/\ req.op = "deploy_best"
     /\ calls[1] = Call("jobs.get", <<"parent", req.experiment_name>>, FALSE))
    =>
    /\ Len(calls) >= 2
    /\ calls[2].api = "jobs.list"
    /\ (calls[2].ok /\ GetChildJobsWithScores(azJobs[req.experiment_name]) # <<>>)
          => RegistrationCalls # {}
    /\ result.status = "ok" => result.value.parent_task_type = "unknown"

\* a deployment that went through although the parent job could not be read
C15_Witness ==
    /\ req.op = "deploy_best"
    /\ ~calls[1].ok
    /\ calls[1].arg[1] = "parent"
    /\ result.status = "ok"
    /\ result.value.parent_task_type = "unknown"
    /\ azEndpoints[req.endpoint_name].deployments # {}

----------------------------------------------------------------------------
(* C16: a dataset whose private flag is true is private to its uploader:
   GET /datasets, GET /datasets/{dataset_id} and the dataset search never
   return it to an authenticated user other than the one recorded in
   uploaded_by. *)
C16_PrivateDatasetOnlyToUploader ==
    (req.op \in {"list_datasets", "get_dataset"} /\ result.status_code = 200)
        => \A d \in result.body : d.private => d.uploaded_by = req.user

----------------------------------------------------------------------------
(* C17: the endpoint-metrics background task lists the Azure endpoints at a
   fixed interval of 5 minutes: after application start, successive
   list_endpoints calls made by the task are 5 minutes apart. *)
C17_ListEveryFiveMinutes ==
    \A i \in 1..(Len(calls) - 1) :
        (calls[i].api = "online_endpoints.list"
            /\ calls[i + 1].api = "online_endpoints.list")
        => calls[i + 1].arg[1] = calls[i].arg[1] + 5

----------------------------------------------------------------------------
(* C18: in deploy_best_model_from_experiment the Azure mutations happen in
   the fixed order register model, create-or-get endpoint, create
   deployment, set traffic; each is issued at most once per call (the
   registration once per candidate artifact path, the second only after
   the first failed), a failed step is followed by no later step, and what
   the earlier steps did stays in Azure: the registered version and the
   created endpoint are still there when the call has failed. *)
C18_MutationsInOrderOnceNoRollback ==
    [][req'.op = "deploy_best" =>
        LET log == calls'
            stage(i) ==
                IF log[i].api = "models.create_or_update" THEN 1
                ELSE IF log[i].api = "online_deployments.begin_create_or_update" THEN 3
                ELSE IF log[i].api = "online_endpoints.begin_create_or_update"
                THEN (IF log[i].arg[1] = "create" THEN 2 ELSE 4)
                ELSE 0
            mutations == {i \in DOMAIN log : stage(i) > 0}
            e == req'.experiment_name
            n == req'.endpoint_name
        IN  /\ \A i, k \in mutations :
                  i < k =>
                      /\ stage(i) <= stage(k)
                      /\ stage(i) = stage(k)
                            => /\ stage(i) = 1
                               /\ log[i].arg[1] # log[k].arg[1]
                               /\ ~log[i].ok
                      /\ ~log[i].ok
                            => /\ stage(i) = 1
                               /\ \/ stage(k) = 1
                                  \/ \E j \in mutations : stage(j) = 1 /\ log[j].ok
            /\ (\E i \in mutations : ~log[i].ok /\ stage(i) > 1)
                  => result'.status = "error"
            /\ \A i \in mutations :
                  log[i].ok =>
                      /\ stage(i) = 1 =>
                            azModels'[ModelNameOf(e)] = azModels[ModelNameOf(e)] + 1
                      /\ stage(i) = 2 => azEndpoints'[n].exists
                      /\ stage(i) = 3 => log[i].arg[2] \in azEndpoints'[n].deployments
                      /\ stage(i) = 4 => azEndpoints'[n].traffic = log[i].arg[3]
            /\ \A m \in DOMAIN azModels : azModels'[m] >= azModels[m]
            /\ \A x \in DOMAIN azEndpoints :
                  /\ azEndpoints[x].exists => azEndpoints'[x].exists
                  /\ azEndpoints[x].deployments \subseteq azEndpoints'[x].deployments]_vars

\* the deployment step failed after the model was registered and the
\* endpoint created: the call failed and both are still in the workspace
C18_Witness ==
    /\ req.op = "deploy_best"
    /\ result.status = "error"
    /\ \E i \in DOMAIN calls :
          /\ calls[i].api = "online_deployments.begin_create_or_update"
          /\ ~calls[i].ok
    /\ \E i \in DOMAIN calls :
          /\ calls[i].api = "online_endpoints.begin_create_or_update"
          /\ calls[i].arg[1] = "create" /\ calls[i].ok
    /\ azModels[ModelNameOf(req.experiment_name)] = 1
    /\ azEndpoints[req.endpoint_name].exists
    /\ azEndpoints[req.endpoint_name].deployments = {}

----------------------------------------------------------------------------
(* C19: in the deploy routes the Model, Endpoint and Deployment writes of
   one request are committed atomically: after the request either all
   three are visible in the database or none is; a failure at either
   flush, at the Deployment insert (the unique (endpoint_id,
   deployment_name) index) or at commit rolls back the model and endpoint
   writes of that request as well. *)
C19_DeployRowsAllOrNone ==
    [][req'.op \in DeployRoutes =>
        \/ /\ dbModels' = dbModels
           /\ dbEndpoints' = dbEndpoints
           /\ dbDeployments' = dbDeployments
           /\ result'.status_code = 200 => result'.message = "warning"
        \/ /\ result'.status_code = 200
           /\ result'.message = "success"
           /\ \E d \in dbDeployments' \ dbDeployments :
              \E m \in dbModels', x \in dbEndpoints' :
                  /\ d.model_id = m.id
                  /\ d.endpoint_id = x.id
                  /\ x.model_id = m.id
                  /\ x.azure_endpoint_name = req'.body.endpoint_name
                  /\ d.user_id = req'.user /\ m.user_id = req'.user
                  /\ x.user_id = req'.user]_vars

\* a second deployment under a name the endpoint already has: Azure holds
\* two versions of the model, and the database still holds the rows of the
\* first request only
C19_Witness ==
    /\ req.op \in DeployRoutes
    /\ result.status_code = 200
    /\ result.message = "warning"
    /\ RegisteredVersions = 2
    /\ Cardinality(dbModels) = 1
    /\ Cardinality(dbEndpoints) = 1
    /\ \E d \in dbDeployments : d.deployment_name = req.body.deployment_name

----------------------------------------------------------------------------
(* C20: if no child job of the experiment has a recognised score,
   deploy_best_model_from_experiment fails with an error and has issued no
   model registration, no endpoint creation, no deployment creation and no
   traffic update. *)
C20_NoScoredJobNoMutation ==
    [][(/\ req'.op = "deploy_best"
        /\ \A k \in DOMAIN azJobs[req'.experiment_name] :
              ScoreOfJob(req'.experiment_name, k) = NoScore)
       =>
       (/\ result'.status = "error"
        /\ \A i \in DOMAIN calls' :
              calls'[i].api \in {"jobs.get", "jobs.list"}
        /\ azModels' = azModels
        /\ azEndpoints' = azEndpoints)]_vars

\* the child jobs were listed, none of them carried a score the extraction
\* reads (one of them carried a precision), and the call failed having only
\* read from the workspace
C20_Witness ==
    /\ req.op = "deploy_best"
    /\ result.status = "error"
    /\ Len(azJobs["e1"]) = 2
    /\ azJobs["e1"][1].properties = << <<"precision", "0.9">> >>
    /\ \A k \in DOMAIN azJobs["e1"] : ScoreOfJob("e1", k) = NoScore
    /\ \E i \in DOMAIN calls : calls[i].api = "jobs.list" /\ calls[i].ok
    /\ azModels[ModelNameOf("e1")] = 0

----------------------------------------------------------------------------
(* C21: after deploy_registered_model (or create_deployment) succeeds with
   traffic_percentage > 0 the endpoint's traffic map is exactly
   {deployment_name: traffic_percentage}, so the traffic entries of the
   deployments already on that endpoint are replaced; with
   traffic_percentage = 0 the endpoint's traffic map is left unchanged. *)
C21_TrafficMapReplaced ==
    [][(/\ req'.op \in {"deploy_registered_model", "create_deployment"}
        /\ result'.status = "ok")
       =>
       LET n == req'.endpoint_name
       IN  /\ req'.traffic_percentage > 0 =>
                 azEndpoints'[n].traffic =
                     {<<req'.deployment_name, req'.traffic_percentage>>}
           /\ req'.traffic_percentage = 0 =>
                 azEndpoints'[n].traffic = azEndpoints[n].traffic
           /\ azEndpoints[n].deployments \subseteq azEndpoints'[n].deployments]_vars

\* blue was deployed at 50 on the endpoint that also has green: green is
\* still a deployment of the endpoint and has no traffic entry any more
C21_Witness ==
    /\ req.op = "deploy_registered_model"
    /\ req.traffic_percentage = 50
    /\ result.status = "ok"
    /\ <<"green", 0>> \in azEndpoints[req.endpoint_name].deployments
    /\ azEndpoints[req.endpoint_name].traffic = {<< <<"blue", 0>>, 50 >>}

----------------------------------------------------------------------------
(* C23: create_or_update_model_record keeps at most one Model row per
   (user_id, azure_model_name): over any sequence of deploy requests run
   one after another by one user for the same experiment, the first creates
   the row and every later one updates that row's version, score,
   algorithm, URI and registration status instead of adding a row. *)
C23_OneModelRowPerUserAndName ==
    [][(/\ req'.op \in DeployRoutes
        /\ result'.status_code = 200
        /\ result'.message = "success")
       =>
       \A n \in DOMAIN azModels :
           LET before == {m \in dbModels :
                             m.user_id = req'.user /\ m.azure_model_name = n}
               after == {m \in dbModels' :
                            m.user_id = req'.user /\ m.azure_model_name = n}
           IN  IF azModels'[n] = azModels[n]
               THEN after = before
               ELSE /\ Cardinality(after) = 1
                    /\ \A m \in after :
                          /\ m.azure_model_version = azModels'[n]
                          /\ m.model_uri = <<"azureml://models", n, azModels'[n]>>
                          /\ m.registration_status = "registered"
                          /\ m.best_score = 90
                          /\ m.algorithm = "unknown"
                          /\ \A b \in before : b.id = m.id
                    /\ Cardinality(dbModels') =
                          Cardinality(dbModels) + (IF before = {} THEN 1 ELSE 0)]_vars

\* the second deployment of experiment e1 by u1: the row of the first one
\* now carries version 2
C23_Witness ==
    /\ req.op = "route_deploy_experiment"
    /\ result.status_code = 200
    /\ result.message = "success"
    /\ Cardinality(dbDeployments) = 2
    /\ Cardinality(dbModels) = 1
    /\ \A m \in dbModels : m.azure_model_version = 2 /\ m.user_id = req.user

----------------------------------------------------------------------------
(* C24: a request rejected by the role gate (401 or 403 raised by
   require_role) changes nothing: no database row is deleted or modified and
   no Azure call is issued, because the role check runs before any statement
   of the handler body. *)

C24_RejectedByGateChangesNothing ==
    [][(/\ req'.op \in {"delete_dataset", "delete_experiment", "delete_run",
                        "delete_endpoint"}
        /\ result'.status_code \in {401, 403})
       => /\ calls' = <<>>
          /\ UNCHANGED <<dbDatasets, dbExperiments, dbRuns, dbModels,
                         dbEndpoints, dbDeployments, dbUsers, dbRoles>>
          /\ UNCHANGED <<azJobs, azSubmitted, azModels, azEndpoints>>]_vars

\* a USER asked for the delete of an endpoint whose row and Azure endpoint
\* both exist, and was turned away by the wrapper of require_role
C24_Witness ==
    /\ req.op = "delete_endpoint"
    /\ req.token = [kind |-> "valid", sub |-> "user"]
    /\ result = HttpError(403, "Insufficient privileges")
    /\ calls = <<>>
    /\ \E x \in dbEndpoints :
          /\ x.id = req.id
          /\ x.azure_endpoint_name # None
          /\ azEndpoints[x.azure_endpoint_name].exists

----------------------------------------------------------------------------
(* C27: DELETE /endpoints/{endpoint_id}: if deleting the endpoint from
   Azure ML fails, the endpoint row is still removed from the database and
   an error is returned to the caller. *)

C27_AzureFailureStillRemovesRow ==
    [][(/\ req'.op = "delete_endpoint"
        /\ calls' # <<>>
        /\ calls'[1].api = "online_endpoints.begin_delete"
        /\ ~calls'[1].ok)
       => /\ result'.status_code >= 400
          /\ ~\E x \in dbEndpoints' : x.id = req'.id]_vars

----------------------------------------------------------------------------
(* C28: get_current_user answers 401 (Invalid token) for a correctly signed
   token that carries no sub claim, and 403 (Authentication failed) for a
   token that cannot be decoded or verified. *)

C28_NoSubGives401UndecodableGives403 ==
    req.op \in {"delete_dataset", "delete_experiment", "delete_run",
                "delete_endpoint"} =>
        /\ req.token.kind = "nosub" => result = HttpError(401, "Invalid token")
        /\ req.token.kind = "invalid"
              => result = HttpError(403, "Authentication failed")

----------------------------------------------------------------------------
(* C25: over any sequence of POST /users, POST /roles, DELETE /users/{user_id}
   and DELETE /roles/{role_id} requests run one after another, every user's
   role_id is either null or the id of an existing role: create_user rejects
   an unknown role_id with 400 and delete_role rejects with 400 a role that
   is still assigned to a user. *)

C25_RoleIdsReferExistingRoles ==
    /\ \A u \in dbUsers : u.role_id = None \/ \E r \in dbRoles : r.id = u.role_id
    /\ [][LET passed == AdminGate(req'.token).pass
          IN  /\ \A u \in dbUsers' :
                    u.role_id = None \/ \E r \in dbRoles' : r.id = u.role_id
              /\ (/\ req'.op = "create_user"
                  /\ passed
                  /\ req'.role_id # None
                  /\ ~\E r \in dbRoles : r.id = req'.role_id)
                 => /\ result'.status_code = 400
                    /\ dbUsers' = dbUsers
              /\ (/\ req'.op = "delete_role"
                  /\ passed
                  /\ \E r \in dbRoles : r.id = req'.id
                  /\ \E u \in dbUsers : u.role_id = req'.id)
                 => /\ result'.status_code = 400
                    /\ dbRoles' = dbRoles]_vars

\* an ADMIN asked for the delete of the role rx, created and then given to a
\* new user, and got 400 with the role still there
C25_Witness ==
    /\ req.op = "delete_role"
    /\ req.id = "rx"
    /\ req.token = [kind |-> "valid", sub |-> "admin"]
    /\ result.status_code = 400
    /\ \E u \in dbUsers : u.id = "ghost" /\ u.role_id = "rx"
    /\ \E r \in dbRoles : r.id = "rx"

----------------------------------------------------------------------------
(* C22: two deploy requests by the same user for the same experiment and
   endpoint name whose database reads and writes interleave never leave two
   Model rows with the same (user_id, azure_model_name) or two Endpoint rows
   with the same (user_id, azure_endpoint_name). *)

C22_InterleavedDeploysKeepOneRow ==
    /\ \A a \in dbModels, b \in dbModels :
          (a.user_id = b.user_id /\ a.azure_model_name = b.azure_model_name)
              => a = b
    /\ \A a \in dbEndpoints, b \in dbEndpoints :
          (a.user_id = b.user_id /\ a.azure_endpoint_name = b.azure_endpoint_name)
              => a = b

----------------------------------------------------------------------------
(* C26: monitor_run polls until completion: if get_run_metrics eventually
   reports a status in {Completed, Failed, Canceled} the task eventually
   terminates, and if the Run row exists at that poll its completed_at is
   set and committed before the task terminates; as long as no such status
   is reported the task keeps polling and does not terminate; the database
   session is closed on every exit, including an exception from
   get_run_metrics.  An exit by an exception (of get_run_metrics or of
   db.commit()) is an exit without a reported status. *)

C26_MonitorRunPollsUntilCompletion ==
    \* a reported terminal status ends the task
    /\ [](result.status \in {"Completed", "Failed", "Canceled"} => req.pc = "exited")
    \* with the row there and the commit returning, the row carries
    \* completed_at and the metrics when the task ends
    /\ [][(/\ req.pc \in {"scheduled", "sleeping"}
           /\ req'.parity # req.parity
           /\ result'.status \in {"Completed", "Failed", "Canceled"}
           /\ result'.raised = "none")
          => /\ req'.pc = "exited"
             /\ \A r \in dbRuns : r.id = req.run_id =>
                   \E r2 \in dbRuns' : /\ r2.id = r.id
                                       /\ r2.completed_at = "utcnow"
                                       /\ r2.metrics[1].status = result'.status]_vars
    \* without a terminal status and without an exception the task sleeps
    \* with its session open, and completed_at stays as it was
    /\ [][(/\ req.pc \in {"scheduled", "sleeping"}
           /\ req'.parity # req.parity
           /\ result'.status \notin {"Completed", "Failed", "Canceled"}
           /\ result'.raised = "none")
          => /\ req'.pc = "sleeping"
             /\ req'.session = "open"
             /\ \A r \in dbRuns : \E r2 \in dbRuns' :
                   r2.id = r.id /\ r2.completed_at = r.completed_at]_vars
    \* a sleeping task polls again
    /\ \A p \in {0, 1} :
          (req.pc = "sleeping" /\ req.parity = p) ~> (req.parity # p)
    \* the task ends only on a terminal status or an exception
    /\ [](req.pc = "exited" =>
             result.status \in {"Completed", "Failed", "Canceled"} \/ result.raised # "none")
    \* the session is closed on every exit
    /\ [](req.pc = "exited" => req.session = "closed")
    /\ [](req.pc \in {"scheduled", "sleeping"} => req.session = "open")

\* the task slept, then was told Completed for r1 and ended with the session
\* closed and completed_at committed
C26_Witness ==
    /\ req.op = "monitor_run"
    /\ req.run_id = "r1"
    /\ req.slept
    /\ req.pc = "exited"
    /\ req.session = "closed"
    /\ result = [status |-> "Completed", raised |-> "none"]
    /\ \E r \in dbRuns : /\ r.id = "r1"
                         /\ r.completed_at = "utcnow"
                         /\ r.metrics = <<[kind |-> "dict", status |-> "Completed"]>>

====
